---------------------------- MODULE Spec2Model ----------------------------
(***************************************************************************)
(* Slate's linear algebra compiler (firedrake/slate/slac/compiler.py):     *)
(* the kernel cache of compile_expression, the statement pipeline of       *)
(* generate_kernel (terminal temporaries, assembly calls, coefficient      *)
(* temporaries, auxiliary expressions, kernel AST) and the execution of    *)
(* the emitted facet loop and layer conditional.                           *)
(***************************************************************************)
EXTENDS Integers, Sequences, FiniteSets, TLC

VARIABLES
    cache,          \* expression id -> (key -> kernel): slate_expr._metakernel_cache
    call,           \* worker -> the activation record of its compile_expression call
    gens,           \* every kernel a generation has produced (history)
    rets,           \* every (expression, parameters, kernel) a call has returned (history)
    ncalls,         \* number of compile_expression calls started
    expr,           \* the expression DAG handed to generate_kernel
    bld,            \* the LocalKernelBuilder of the expression
    gpc,            \* position inside generate_kernel
    declared_temps, \* node -> symbol: the dict generate_kernel threads through
    statements,     \* the statement list generate_kernel builds
    args,           \* the kernel's argument list
    kinfo,          \* the KernelInfo flags returned
    run             \* one execution of the emitted kernel body

cacheVars == <<cache, call, gens, rets, ncalls>>
genVars == <<expr, bld, gpc, declared_temps, statements, args, kinfo, run>>
vars == <<cache, call, gens, rets, ncalls, expr, bld, gpc, declared_temps, statements, args, kinfo, run>>

-----------------------------------------------------------------------------
(* Bounds of the model *)

MaxNodes == 4
MaxCalls == 2
MaxParamKeys == 2
MaxLayers == 5
MaxCoeffs == 2
MaxFormNodes == 1
MaxConcurrentCalls == 2
MaxComponents == 3
MaxOrder == 2
MaxRoutineCalls == 2

NumWorkers == 2

-----------------------------------------------------------------------------
(* Small helpers *)

Range(s) == {s[i] : i \in 1..Len(s)}

RECURSIVE SumSeq(_)
SumSeq(s) == IF s = <<>> THEN 0 ELSE s[1] + SumSeq(Tail(s))

RECURSIVE Concat(_)
Concat(ss) == IF ss = <<>> THEN <<>> ELSE ss[1] \o Concat(Tail(ss))

Reverse(s) == [i \in 1..Len(s) |-> s[Len(s) + 1 - i]]

Take(s, k) == SubSeq(s, 1, IF k < Len(s) THEN k ELSE Len(s))

MinOf(S) == CHOOSE x \in S : \A y \in S : x <= y

-----------------------------------------------------------------------------
(* Slate expression nodes.  A DAG is a sequence of nodes; a node names its *)
(* operands by their positions, the root is the last node.                 *)

TerminalTypes == {"Tensor", "AssembledVector"}
UnaryTypes == {"Transpose", "Negative", "Inverse", "Factorization", "Block"}
BinaryTypes == {"Add", "Mul", "Solve"}

NoPrec == -1

\* expr.prec of the node classes of firedrake.slate.slate
Prec(type) ==
    CASE type = "Add" -> 1
      [] type = "Negative" -> 1
      [] type = "Mul" -> 2
      [] type = "Solve" -> 2
      [] OTHER -> NoPrec

\* expr.shape: the extent of each axis is the sum of its component extents
Shape(node) == [i \in 1..Len(node.shapes) |-> SumSeq(node.shapes[i])]

Rank(node) == Len(node.shapes)

Root(d) == Len(d)

\* number of distinct parents of node n in DAG d
RefCount(d, n) == Cardinality({m \in 1..Len(d) : n \in Range(d[m].ops)})

\* A terminal node
Terminal(type, shapes) == [type |-> type, ops |-> <<>>, shapes |-> shapes, idx |-> <<>>]

\* shapes of a Block: the components its indices select on each axis
BlockShapes(opshapes, idx) ==
    [i \in 1..Len(opshapes) |->
        [j \in 1..Len(idx[i]) |-> opshapes[i][idx[i][j] + 1]]]

\* shapes of an operator node, from the shapes of its operands
OpShapes(type, opnds, idx) ==
    CASE type = "Transpose" -> Reverse(opnds[1].shapes)
      [] type = "Block" -> BlockShapes(opnds[1].shapes, idx)
      [] type \in {"Mul", "Solve"} ->
            SubSeq(opnds[1].shapes, 1, Len(opnds[1].shapes) - 1)
                \o SubSeq(opnds[2].shapes, 2, Len(opnds[2].shapes))
      [] OTHER -> opnds[1].shapes

\* An operator node of DAG d over the operands at positions ops
OpNode(d, type, ops, idx) ==
    [type |-> type, ops |-> ops,
     shapes |-> OpShapes(type, [i \in 1..Len(ops) |-> d[ops[i]]], idx),
     idx |-> idx]

\* The index tuples a Block may carry on an axis of n components (numbered from 0)
IndexTuples(n) == {ids \in {<<1>>, <<1, 2>>, <<0, 2>>} : \A i \in 1..Len(ids) : ids[i] < n}

BlockIndices(opshapes) ==
    IF Len(opshapes) = 1 THEN {<<r>> : r \in IndexTuples(Len(opshapes[1]))}
    ELSE IF Len(opshapes) = 2
         THEN {<<r, <<0>>>> : r \in IndexTuples(Len(opshapes[1]))}
         ELSE {}

\* A tensor of three components on each axis (4 x 4), a scalar and a rank-3 tensor;
\* a vector of three components
MixedTensorShapes == << <<1, 2, 1>>, <<1, 2, 1>> >>
ScalarShapes == <<>>
Rank3Shapes == << <<1>>, <<1>>, <<1>> >>
MixedVectorShapes == << <<1, 2, 1>> >>

\* The nodes the Slate constructors can put on top of DAG d
NodeChoices(d) ==
    {Terminal("Tensor", MixedTensorShapes), Terminal("AssembledVector", MixedVectorShapes)}
        \cup (IF d = <<>>
              THEN {Terminal("Tensor", ScalarShapes), Terminal("Tensor", Rank3Shapes)}
              ELSE {})
        \cup {OpNode(d, t, <<a>>, <<>>) : t \in UnaryTypes \ {"Block"}, a \in 1..Len(d)}
        \cup UNION {{OpNode(d, "Block", <<a>>, ix) : ix \in BlockIndices(d[a].shapes)} :
                        a \in 1..Len(d)}
        \cup {OpNode(d, t, <<a, b>>, <<>>) : t \in BinaryTypes, a \in 1..Len(d), b \in 1..Len(d)}

\* every node but the root is an operand of some node: the DAG of one expression
Connected(d) == \A n \in 1..(Len(d) - 1) : RefCount(d, n) >= 1

\* the orders topological_sort may return: operands before the nodes using them
IsDependencyOrder(d, ord) ==
    /\ Len(ord) = Len(d)
    /\ Range(ord) = 1..Len(d)
    /\ \A i \in 1..Len(ord) : \A j \in 1..Len(ord) :
            ord[j] \in Range(d[ord[i]].ops) => j < i

RECURSIVE Perms(_)
Perms(S) ==
    IF S = {} THEN {<<>>}
    ELSE UNION {{<<x>> \o p : p \in Perms(S \ {x})} : x \in S}

TopologicalSorts(d) == {ord \in Perms(1..Len(d)) : IsDependencyOrder(d, ord)}

-----------------------------------------------------------------------------
(* Lowering to Eigen C++: parenthesize, eigen_matrixbase_type, slate_to_cpp *)

\* a name made of the prefix alone, the number dropped
SymUnnumbered(prefix, i) == [p |-> prefix, i |-> 0, j |-> -1]

\* A symbol such as T0, VT1, auxT3, dec2: the format "%s%d" of prefix and number
Sym(prefix, i) == [p |-> prefix, i |-> i, j |-> -1]

\* A coefficient symbol w_<i>_<j>: the format "w_{}_{}" of two numbers
Sym2(prefix, i, j) == [p |-> prefix, i |-> i, j |-> j]

\* Tokens of a generated code string.  A symbol token names a temporary; an
\* operator token carries the node whose expansion emitted it.
SymTok(sym) == [k |-> "sym", p |-> sym.p, i |-> sym.i, a |-> <<sym.j>>]
OpTok(op, n) == [k |-> "op", p |-> op, i |-> n, a |-> <<>>]
BlockTok(n, a) == [k |-> "op", p |-> "block", i |-> n, a |-> a]
Lit(s) == [k |-> "lit", p |-> s, i |-> 0, a |-> <<>>]

Ok(code) == [ok |-> TRUE, code |-> code]
Raise(what) == [ok |-> FALSE, code |-> what]

Parenthesize(arg, prec, parent) ==
    IF prec = NoPrec \/ parent = NoPrec \/ prec >= parent
    THEN arg
    ELSE <<Lit("(")>> \o arg \o <<Lit(")")>>

\* a declaration for a shape of any rank, the first two extents taken
EigenMatrixbaseTypeAnyRank(shape) ==
    Ok([rows |-> IF Len(shape) = 0 THEN 1 ELSE shape[1],
        cols |-> IF Len(shape) < 2 THEN 1 ELSE shape[2],
        order |-> IF Len(shape) < 2 \/ shape[2] = 1 THEN "" ELSE ", Eigen::RowMajor"])

EigenMatrixbaseType(shape) ==
    IF Len(shape) = 0 THEN Ok([rows |-> 1, cols |-> 1, order |-> ""])
    ELSE IF Len(shape) = 1 THEN Ok([rows |-> shape[1], cols |-> 1, order |-> ""])
    ELSE IF Len(shape) # 2 THEN Raise("NotImplementedError")
    ELSE Ok([rows |-> shape[1], cols |-> shape[2],
             order |-> IF shape[2] # 1 THEN ", Eigen::RowMajor" ELSE ""])

\* a test that lets every index tuple through
ContiguousUnchecked(ids) == TRUE

Contiguous(ids) == \A i \in 1..(Len(ids) - 1) : ids[i] + 1 = ids[i + 1]

RECURSIVE SlateToCpp(_, _, _, _)
SlateToCpp(d, n, temps, prec) ==
    LET e == d[n]
        sub(k, p) == SlateToCpp(d, e.ops[k], temps, p)
    IN
    IF n \in DOMAIN temps THEN Ok(<<SymTok(temps[n])>>)
    ELSE IF e.type = "Transpose" THEN
        LET t == sub(1, NoPrec)
        IN  IF ~t.ok THEN t
            ELSE Ok(<<Lit("(")>> \o t.code \o <<Lit(")"), OpTok(".transpose()", n)>>)
    ELSE IF e.type = "Inverse" THEN
        LET t == sub(1, NoPrec)
        IN  IF ~t.ok THEN t
            ELSE Ok(<<Lit("(")>> \o t.code \o <<Lit(")"), OpTok(".inverse()", n)>>)
    ELSE IF e.type = "Negative" THEN
        LET t == sub(1, Prec(e.type))
        IN  IF ~t.ok THEN t
            ELSE Ok(Parenthesize(<<OpTok("-", n)>> \o t.code, Prec(e.type), prec))
    ELSE IF e.type \in {"Add", "Mul"} THEN
        LET A == sub(1, Prec(e.type))
            B == sub(2, Prec(e.type))
            op == IF e.type = "Add" THEN "+" ELSE "*"
        IN  IF ~A.ok THEN A
            ELSE IF ~B.ok THEN B
            ELSE Ok(Parenthesize(A.code \o <<OpTok(op, n)>> \o B.code, Prec(e.type), prec))
    ELSE IF e.type = "Block" THEN
        LET tensor == d[e.ops[1]]
            rids == e.idx[1]
            cids == IF Len(e.idx) = 2 THEN e.idx[2] ELSE <<0>>
        IN  IF ~(Contiguous(rids) /\ Contiguous(cids)) THEN Raise("NotImplementedError")
            ELSE LET rshape == Shape(e)[1]
                     rstart == SumSeq(Take(tensor.shapes[1], MinOf(Range(rids))))
                     cshape == IF Rank(e) = 1 THEN 1 ELSE Shape(e)[2]
                     cstart == IF Rank(e) = 1 THEN 0
                               ELSE SumSeq(Take(tensor.shapes[2], MinOf(Range(cids))))
                     t == sub(1, Prec(e.type))
                 IN  IF ~t.ok THEN t
                     ELSE Ok(Parenthesize(
                                <<Lit("(")>> \o t.code
                                    \o <<Lit(")"), BlockTok(n, <<rshape, cshape, rstart, cstart>>)>>,
                                Prec(e.type), prec))
    ELSE IF e.type = "Solve" THEN
        LET A == sub(1, Prec(e.type))
            B == sub(2, Prec(e.type))
        IN  IF ~A.ok THEN A
            ELSE IF ~B.ok THEN B
            ELSE Ok(Parenthesize(A.code \o <<OpTok(".solve(", n)>> \o B.code \o <<Lit(")")>>,
                                 Prec(e.type), prec))
    ELSE Raise("NotImplementedError")

-----------------------------------------------------------------------------
(* Statements of the kernel body (COFFEE nodes and flat strings) *)

Comment(text) == [k |-> "comment", text |-> text]
Decl(type, sym) == [k |-> "decl", sym |-> sym, type |-> type]
SetZero(sym) == [k |-> "setZero", sym |-> sym]
CallStmt(c) == [k |-> "call", call |-> c]
FactorStmt(type, sym, code) == [k |-> "factor", sym |-> sym, type |-> type, code |-> code]
Assign(sym, code) == [k |-> "assign", sym |-> sym, code |-> code]
\* an assignment that leaves the offset out of the index
CoeffAssignWithoutOffset(sym, offset, src) ==
    [k |-> "cassign", sym |-> sym, offset |-> 0, src |-> src]

CoeffAssign(sym, offset, src) == [k |-> "cassign", sym |-> sym, offset |-> offset, src |-> src]
MapStmt(type, sym, data) == [k |-> "map", sym |-> sym, type |-> type, data |-> data]
\* an overwrite in place of the increment
IncrAsAssign(sym, code) == [k |-> "assign", sym |-> sym, code |-> code]

Incr(sym, code) == [k |-> "incr", sym |-> sym, code |-> code]
CastStmt(sym) == [k |-> "cast", sym |-> sym]
\* ast.If(cond, (then,)) and ast.If(cond, (then, else)); cond is  what[col] == val
If(what, col, val, then, else) ==
    [k |-> "if", what |-> what, col |-> col, val |-> val, then |-> then, else |-> else]
\* ast.For(var = 0; var < bound; var++) body
For(var, bound, body) == [k |-> "for", var |-> var, bound |-> bound, body |-> body]

CellFacetSym == Sym("cell_facets", 0)
MeshLayerSym == Sym("layer", 0)

-----------------------------------------------------------------------------
(* terminal_temporaries *)

\* a declaration that leaves the temporary uninitialized
DeclareOnly(ty, sym) == <<Decl(ty, sym)>>

\* ast.Decl(type, t) and "t.setZero();"
DeclareAndZero(ty, sym) == <<Decl(ty, sym), SetZero(sym)>>

RECURSIVE TerminalDecls(_, _)
TerminalDecls(d, temps) ==
    IF temps = <<>> THEN Ok(<<>>)
    ELSE LET ty == EigenMatrixbaseType(Shape(d[temps[1].node]))
             rest == TerminalDecls(d, Tail(temps))
         IN  IF ~ty.ok THEN ty
             ELSE IF ~rest.ok THEN rest
             ELSE Ok(DeclareAndZero(ty.code, temps[1].sym) \o rest.code)

\* Returns [ok, stmts, declared]
TerminalTemporaries(b, d, declared) ==
    LET r == TerminalDecls(d, b.temps)
        tnodes == {b.temps[i].node : i \in 1..Len(b.temps)}
        symOf(n) == (CHOOSE i \in 1..Len(b.temps) : b.temps[i].node = n)
    IN  IF ~r.ok THEN [ok |-> FALSE, stmts |-> <<>>, declared |-> declared]
        ELSE [ok |-> TRUE,
              stmts |-> <<Comment("Declare and initialize")>> \o r.code,
              declared |-> [n \in DOMAIN declared \cup tnodes |->
                                IF n \in tnodes THEN b.temps[symOf(n)].sym ELSE declared[n]]]

-----------------------------------------------------------------------------
(* tensor_assembly_calls *)

CallStmts(calls) == [i \in 1..Len(calls) |-> CallStmt(calls[i])]

\* gem.utils.groupby: the keys in order of first appearance
RECURSIVE GroupKeys(_, _)
GroupKeys(calls, seen) ==
    IF calls = <<>> THEN <<>>
    ELSE IF calls[1].sd \in seen THEN GroupKeys(Tail(calls), seen)
    ELSE <<calls[1].sd>> \o GroupKeys(Tail(calls), seen \cup {calls[1].sd})

SelectSd(calls, sd) == SelectSeq(calls, LAMBDA c : c.sd = sd)

\* subdomain calls that are not gated on the subdomain id
SubdomainCallsUngated(calls) == CallStmts(calls)

SubdomainIfs(calls) ==
    LET keys == GroupKeys(calls, {})
    IN  [i \in 1..Len(keys) |->
            If(CellFacetSym, 1, keys[i], CallStmts(SelectSd(calls, keys[i])), <<>>)]

FacetLoop(b) ==
    LET ac == b.assembly_calls
        int_calls == CallStmts(ac["interior_facet"] \o ac["interior_facet_vert"])
                        \o SubdomainIfs(ac["subdomains_interior_facet"])
        ext_calls == CallStmts(ac["exterior_facet"] \o ac["exterior_facet_vert"])
                        \o SubdomainIfs(ac["subdomains_exterior_facet"])
        body == (IF ext_calls # <<>> THEN <<If(CellFacetSym, 0, 0, ext_calls, <<>>)>> ELSE <<>>)
                    \o (IF int_calls # <<>> THEN <<If(CellFacetSym, 0, 1, int_calls, <<>>)>> ELSE <<>>)
    IN  <<Comment("Loop over cell facets"), For("i0", b.num_facets, body)>>

\* a conditional that takes the number of vertex layers for the number of cells
LayerConditionalOffByOne(b) ==
    LET ac == b.assembly_calls
        num_layers == b.layers
        int_top == ac["interior_facet_horiz_top"]
        int_btm == ac["interior_facet_horiz_bottom"]
        ext_top == ac["exterior_facet_top"]
        ext_btm == ac["exterior_facet_bottom"]
        bottom == CallStmts(int_top \o ext_btm)
        top == CallStmts(int_btm \o ext_top)
        rest == CallStmts(int_btm \o int_top)
    IN  <<Comment("Mesh levels:"),
          If(MeshLayerSym, -1, 0, bottom,
             <<If(MeshLayerSym, -1, num_layers - 1, top, rest)>>)>>

\* two conditionals side by side, one per test
LayerConditionalIndependentIfs(b) ==
    LET ac == b.assembly_calls
        num_layers == b.layers - 1
        int_top == ac["interior_facet_horiz_top"]
        int_btm == ac["interior_facet_horiz_bottom"]
        ext_top == ac["exterior_facet_top"]
        ext_btm == ac["exterior_facet_bottom"]
        bottom == CallStmts(int_top \o ext_btm)
        top == CallStmts(int_btm \o ext_top)
        rest == CallStmts(int_btm \o int_top)
    IN  <<Comment("Mesh levels:"),
          If(MeshLayerSym, -1, 0, bottom, <<>>),
          If(MeshLayerSym, -1, num_layers - 1, top, rest)>>

LayerConditional(b) ==
    LET ac == b.assembly_calls
        num_layers == b.layers - 1
        int_top == ac["interior_facet_horiz_top"]
        int_btm == ac["interior_facet_horiz_bottom"]
        ext_top == ac["exterior_facet_top"]
        ext_btm == ac["exterior_facet_bottom"]
        bottom == CallStmts(int_top \o ext_btm)
        top == CallStmts(int_btm \o ext_top)
        rest == CallStmts(int_btm \o int_top)
    IN  <<Comment("Mesh levels:"),
          If(MeshLayerSym, -1, 0, bottom,
             <<If(MeshLayerSym, -1, num_layers - 1, top, rest)>>)>>

TensorAssemblyCalls(b) ==
    <<Comment("Assemble local tensors")>>
        \o CallStmts(b.assembly_calls["cell"])
        \o (IF b.needs_cell_facets THEN FacetLoop(b) ELSE <<>>)
        \o (IF b.needs_mesh_layers THEN LayerConditional(b) ELSE <<>>)

-----------------------------------------------------------------------------
(* coefficient_temporaries *)

\* One pass of the loop over cinfo_list: [stmts, loopbody, declared]
RECURSIVE CoeffGroup(_, _, _)
CoeffGroup(b, cinfos, acc) ==
    IF cinfos = <<>> THEN acc
    ELSE LET ci == cinfos[1]
             fresh == ci.vector \notin DOMAIN acc.declared
             ty == EigenMatrixbaseType(ci.shape)
             src == b.coefficient[ci.function][ci.space_index + 1]
         IN  IF ~acc.ok THEN acc
             ELSE IF fresh /\ ~ty.ok THEN [acc EXCEPT !.ok = FALSE]
             ELSE CoeffGroup(b, Tail(cinfos),
                    [ok |-> TRUE,
                     stmts |-> acc.stmts \o (IF fresh THEN <<Decl(ty.code, ci.local_temp)>> ELSE <<>>),
                     assignments |-> acc.assignments
                                        \o <<CoeffAssign(ci.local_temp, ci.offset_index, src)>>,
                     declared |-> IF fresh
                                  THEN [n \in DOMAIN acc.declared \cup {ci.vector} |->
                                            IF n = ci.vector THEN ci.local_temp ELSE acc.declared[n]]
                                  ELSE acc.declared])

\* The loop over builder.coefficient_vecs.items(): [ok, stmts, loops, declared]
RECURSIVE CoeffGroups(_, _, _)
CoeffGroups(b, groups, acc) ==
    IF groups = <<>> THEN acc
    ELSE LET g == CoeffGroup(b, groups[1].cinfos,
                        [ok |-> acc.ok, stmts |-> acc.stmts, assignments |-> <<>>,
                         declared |-> acc.declared])
         IN  IF ~g.ok THEN [acc EXCEPT !.ok = FALSE]
             ELSE CoeffGroups(b, Tail(groups),
                    [ok |-> TRUE, stmts |-> g.stmts,
                     loops |-> acc.loops \o <<For("j1", groups[1].dofs, g.assignments)>>,
                     declared |-> g.declared])

\* the loops put in front of the declarations
CoefficientTemporariesLoopsFirst(b, declared) ==
    LET r == CoeffGroups(b, b.coefficient_vecs,
                [ok |-> TRUE, stmts |-> <<Comment("Coefficient temporaries")>>,
                 loops |-> <<Comment("Loops for coefficient temps")>>,
                 declared |-> declared])
    IN  [ok |-> r.ok, stmts |-> r.loops \o r.stmts, declared |-> r.declared]

CoefficientTemporaries(b, declared) ==
    LET r == CoeffGroups(b, b.coefficient_vecs,
                [ok |-> TRUE, stmts |-> <<Comment("Coefficient temporaries")>>,
                 loops |-> <<Comment("Loops for coefficient temps")>>,
                 declared |-> declared])
    IN  [ok |-> r.ok, stmts |-> r.stmts \o r.loops, declared |-> r.declared]

-----------------------------------------------------------------------------
(* auxiliary_expressions *)

\* a tuple of terminals that leaves Transpose out
AuxTerminalsWithoutTranspose == {"Tensor", "AssembledVector", "Negative"}

AuxTerminals == {"Tensor", "AssembledVector", "Negative", "Transpose"}

\* a filter that keeps the factorizations only
NeedsAuxFactorizationOnly(b, d, n) == d[n].type = "Factorization"

NeedsAux(b, d, n) ==
    \/ (b.ref_counter[n] > 1 /\ d[n].type \notin AuxTerminals)
    \/ d[n].type = "Factorization"

\* the filtered nodes taken from the last of the order to the first
SortedExprsReversed(b, d) == Reverse(SelectSeq(b.sorted, LAMBDA n : NeedsAux(b, d, n)))

SortedExprs(b, d) == SelectSeq(b.sorted, LAMBDA n : NeedsAux(b, d, n))

RECURSIVE AuxLoop(_, _, _)
AuxLoop(d, exps, acc) ==
    IF exps = <<>> \/ ~acc.ok THEN acc
    ELSE LET n == exps[1]
             len == Cardinality(DOMAIN acc.declared)
             isFact == d[n].type = "Factorization"
             t == IF isFact THEN Sym("dec", len) ELSE Sym("auxT", len)
             code == IF isFact THEN SlateToCpp(d, d[n].ops[1], acc.declared, NoPrec)
                     ELSE SlateToCpp(d, n, acc.declared, NoPrec)
             ty == EigenMatrixbaseType(Shape(d[n]))
             new == IF isFact THEN <<FactorStmt(ty.code, t, code.code)>>
                    ELSE <<Decl(ty.code, t), Assign(t, code.code)>>
         IN  IF n \in DOMAIN acc.declared THEN AuxLoop(d, Tail(exps), acc)
             ELSE IF ~code.ok \/ ~ty.ok THEN [acc EXCEPT !.ok = FALSE]
             ELSE AuxLoop(d, Tail(exps),
                    [ok |-> TRUE,
                     stmts |-> acc.stmts \o new,
                     declared |-> [m \in DOMAIN acc.declared \cup {n} |->
                                        IF m = n THEN t ELSE acc.declared[m]]])

AuxiliaryExpressions(b, d, declared) ==
    AuxLoop(d, SortedExprs(b, d), [ok |-> TRUE, stmts |-> <<>>, declared |-> declared])

-----------------------------------------------------------------------------
(* generate_kernel_ast *)

Arg(role, sym) == [role |-> role, sym |-> sym]

CoefficientArgs(b) ==
    Concat([c \in 1..Len(b.coefficients) |->
                [j \in 1..Len(b.coefficient[b.coefficients[c]]) |->
                    Arg("coefficient", b.coefficient[b.coefficients[c]][j])]])

KernelAstArgs(b, result_data_sym) ==
    <<Arg("output", result_data_sym), Arg("coords", Sym("coords", 0))>>
        \o (IF b.oriented THEN <<Arg("orientations", Sym("cell_orientations", 0))>> ELSE <<>>)
        \o CoefficientArgs(b)
        \o (IF b.needs_cell_facets THEN <<Arg("cell_facets", Sym("arg_cell_facets", 0))>> ELSE <<>>)
        \o (IF b.needs_mesh_layers THEN <<Arg("layer", MeshLayerSym)>> ELSE <<>>)
        \o (IF b.needs_cell_sizes THEN <<Arg("cell_sizes", Sym("cell_sizes", 0))>> ELSE <<>>)

\* a record whose layer flag follows the facet need
KernelInfoLayerFromFacets(b, oriented) ==
    [integral_type |-> "cell",
     oriented |-> oriented,
     needs_cell_facets |-> b.needs_cell_facets,
     pass_layer_arg |-> b.needs_cell_facets,
     needs_cell_sizes |-> b.needs_cell_sizes]

KernelInfo(b, oriented) ==
    [integral_type |-> "cell",
     oriented |-> oriented,
     needs_cell_facets |-> b.needs_cell_facets,
     pass_layer_arg |-> b.needs_mesh_layers,
     needs_cell_sizes |-> b.needs_cell_sizes]

NoKernelInfo == [integral_type |-> "none"]

\* the statement put at the end of the list
InsertLast(stmts, st) == Append(stmts, st)

\* statements.insert(0, st)
Insert0(stmts, st) == <<st>> \o stmts

\* Returns [ok, stmts, args, kinfo]
GenerateKernelAst(b, d, stmts, declared) ==
    LET root == d[Root(d)]
        shape == IF Rank(root) = 0 THEN <<1>> ELSE Shape(root)
        len == Cardinality(DOMAIN declared)
        result_sym == Sym("T", len)
        result_data_sym == Sym("A", len)
        ty == EigenMatrixbaseType(shape)
        cpp == SlateToCpp(d, Root(d), declared, NoPrec)
        body == stmts
                    \o <<Comment("Map eigen tensor into C struct"),
                         MapStmt(ty.code, result_sym, result_data_sym),
                         Comment("Linear algebra expression"),
                         Incr(result_sym, cpp.code)>>
    IN  IF ~ty.ok \/ ~cpp.ok
        THEN [ok |-> FALSE, stmts |-> stmts, args |-> <<>>, kinfo |-> NoKernelInfo]
        ELSE [ok |-> TRUE,
              stmts |-> IF b.needs_cell_facets THEN Insert0(body, CastStmt(CellFacetSym)) ELSE body,
              args |-> KernelAstArgs(b, result_data_sym),
              kinfo |-> KernelInfo(b, b.oriented)]

-----------------------------------------------------------------------------
(* gem_to_loopy: the argument list of the outer loopy kernel *)

LoopyCoefficientArgs(b) ==
    Concat([c \in 1..Len(b.coefficients) |->
                LET f == b.coefficients[c]
                    infos == SelectSeq(Concat([g \in 1..Len(b.coefficient_vecs) |->
                                                    b.coefficient_vecs[g].cinfos]),
                                       LAMBDA ci : ci.function = f)
                IN  IF infos # <<>>
                    THEN [k \in 1..Len(infos) |-> Arg("coefficient", Sym("coeff", 0))]
                    ELSE [j \in 1..Len(b.coefficient[f]) |-> Arg("coefficient", b.coefficient[f][j])]])

GemToLoopyArgs(b) ==
    [i \in 1..Len(b.temps) |-> Arg("temporary", b.temps[i].sym)]
        \o <<Arg("output", Sym("output", 0)), Arg("coords", Sym("coords", 0))>>
        \o (IF b.needs_cell_orientations THEN <<Arg("orientations", Sym("orientations", 0))>> ELSE <<>>)
        \o (IF b.needs_cell_sizes THEN <<Arg("cell_sizes", Sym("cell_sizes", 0))>> ELSE <<>>)
        \o LoopyCoefficientArgs(b)
        \o (IF b.needs_cell_facets THEN <<Arg("cell_facets", Sym("cell_facets", 0))>> ELSE <<>>)
        \o (IF b.needs_mesh_layers THEN <<Arg("layer", MeshLayerSym)>> ELSE <<>>)

-----------------------------------------------------------------------------
(* The kernel builder of an expression (LocalKernelBuilder): the tables    *)
(* generate_kernel reads                                                   *)

IntegralTypes ==
    {"cell", "interior_facet", "interior_facet_vert", "exterior_facet", "exterior_facet_vert",
     "subdomains_exterior_facet", "subdomains_interior_facet",
     "interior_facet_horiz_top", "interior_facet_horiz_bottom",
     "exterior_facet_top", "exterior_facet_bottom"}

FacetTypes ==
    {"interior_facet", "interior_facet_vert", "exterior_facet", "exterior_facet_vert",
     "subdomains_exterior_facet", "subdomains_interior_facet"}

LayerTypes ==
    {"interior_facet_horiz_top", "interior_facet_horiz_bottom",
     "exterior_facet_top", "exterior_facet_bottom"}

\* A call of a TSFC kernel: it accumulates into the temporary of a terminal tensor
Call(it, id, sd, tensor) == [it |-> it, id |-> id, sd |-> sd, tensor |-> tensor]

NodesOfType(d, type) == SelectSeq([i \in 1..Len(d) |-> i], LAMBDA n : d[n].type = type)

\* builder.temps: the terminal tensors, named T0, T1, ... as they are met
BuilderTemps(d) ==
    LET tn == NodesOfType(d, "Tensor")
    IN  [i \in 1..Len(tn) |-> [node |-> tn[i], sym |-> Sym("T", i - 1)]]

\* CoefficientInfo of every component of every AssembledVector
CoefficientInfos(d) ==
    LET vn == NodesOfType(d, "AssembledVector")
    IN  Concat([k \in 1..Len(vn) |->
                    LET exts == d[vn[k]].shapes[1]
                    IN  [i \in 1..Len(exts) |->
                            [space_index |-> i - 1,
                             offset_index |-> SumSeq(SubSeq(exts, 1, i - 1)),
                             shape |-> <<SumSeq(exts)>>,
                             dofs |-> exts[i],
                             vector |-> vn[k],
                             function |-> k,
                             local_temp |-> Sym("VT", k - 1)]]])

RECURSIVE DofKeys(_, _)
DofKeys(cinfos, seen) ==
    IF cinfos = <<>> THEN <<>>
    ELSE IF cinfos[1].dofs \in seen THEN DofKeys(Tail(cinfos), seen)
    ELSE <<cinfos[1].dofs>> \o DofKeys(Tail(cinfos), seen \cup {cinfos[1].dofs})

\* builder.coefficient_vecs: the infos grouped by extent, in order of first appearance
CoefficientVecs(d) ==
    LET cis == CoefficientInfos(d)
        keys == DofKeys(cis, {})
    IN  [g \in 1..Len(keys) |->
            [dofs |-> keys[g], cinfos |-> SelectSeq(cis, LAMBDA ci : ci.dofs = keys[g])]]

\* builder.coefficient(f): one symbol per component of a mixed coefficient
CoefficientSyms(f, ncomp) ==
    IF ncomp > 1 THEN [j \in 1..ncomp |-> Sym2("w", f - 1, j - 1)]
    ELSE <<Sym("w", f - 1)>>

\* cfg: the assembly calls of the forms, the needs of their kernels, the mesh
Builder(d, cfg) ==
    LET vn == NodesOfType(d, "AssembledVector")
        nco == Len(vn) + cfg.nextra
        nonempty(types) == \E it \in types : cfg.calls[it] # <<>>
    IN  [temps |-> BuilderTemps(d),
         coefficient_vecs |-> CoefficientVecs(d),
         coefficients |-> [f \in 1..nco |-> f],
         coefficient |-> [f \in 1..nco |->
                            CoefficientSyms(f, IF f <= Len(vn) THEN Len(d[vn[f]].shapes[1]) ELSE 1)],
         ref_counter |-> [n \in 1..Len(d) |-> RefCount(d, n)],
         sorted |-> cfg.sorted,
         assembly_calls |-> cfg.calls,
         needs_cell_facets |-> nonempty(FacetTypes),
         needs_mesh_layers |-> nonempty(LayerTypes),
         oriented |-> cfg.oriented,
         needs_cell_orientations |-> cfg.oriented,
         needs_cell_sizes |-> cfg.sizes,
         num_facets |-> cfg.num_facets,
         layers |-> cfg.layers]

\* A Slate expression: its DAG, and the forms and mesh behind it (cfg)
SlateExpr(d, cfg) ==
    [tensor_base |-> TRUE, is_mixed |-> FALSE, ndomains |-> 1, dag |-> d, forms |-> cfg]

BuilderOf(e) == Builder(e.dag, e.forms)

-----------------------------------------------------------------------------
(* generate_kernel and generate_loopy_kernel as functions of the expression *)

\* a test that looks at is_mixed only
UnsupportedMixedOnly(e) == e.is_mixed

Unsupported(e) == e.is_mixed \/ e.ndomains > 1

\* Returns [ok, stmts, args, kinfo, declared]
GenerateKernel(e) ==
    LET b == BuilderOf(e)
        fail == [ok |-> FALSE, stmts |-> <<>>, args |-> <<>>, kinfo |-> NoKernelInfo,
                 declared |-> <<>>]
        t == TerminalTemporaries(b, e.dag, <<>>)
        calls == TensorAssemblyCalls(b)
        c == IF b.coefficient_vecs # <<>> THEN CoefficientTemporaries(b, t.declared)
             ELSE [ok |-> TRUE, stmts |-> <<>>, declared |-> t.declared]
        a == AuxiliaryExpressions(b, e.dag, c.declared)
        k == GenerateKernelAst(b, e.dag, t.stmts \o calls \o c.stmts \o a.stmts, a.declared)
    IN  IF Unsupported(e) THEN fail
        ELSE IF ~t.ok THEN fail
        ELSE IF ~c.ok THEN fail
        ELSE IF ~a.ok THEN fail
        ELSE IF ~k.ok THEN fail
        ELSE [ok |-> TRUE, stmts |-> k.stmts, args |-> k.args, kinfo |-> k.kinfo,
              declared |-> a.declared]

\* SlateTranslator rejects what the expression language does not support
RECURSIVE TranslatorRejects(_, _)
TranslatorRejects(d, n) ==
    \/ Rank(d[n]) > 2
    \/ d[n].type \notin TerminalTypes \cup UnaryTypes \cup BinaryTypes
    \/ (d[n].type = "Block" /\ \E i \in 1..Len(d[n].idx) : ~Contiguous(d[n].idx[i]))
    \/ \E i \in 1..Len(d[n].ops) : TranslatorRejects(d, d[n].ops[i])

GenerateLoopyKernel(e) ==
    LET b == BuilderOf(e)
    IN
    IF Unsupported(e) \/ TranslatorRejects(e.dag, Root(e.dag))
    THEN [ok |-> FALSE, stmts |-> <<>>, args |-> <<>>, kinfo |-> NoKernelInfo, declared |-> <<>>]
    ELSE [ok |-> TRUE, stmts |-> <<>>, args |-> GemToLoopyArgs(b),
          kinfo |-> KernelInfo(b, b.needs_cell_orientations), declared |-> <<>>]

-----------------------------------------------------------------------------
(* The forms and meshes the model compiles expressions over *)

NoCalls == [it \in IntegralTypes |-> <<>>]

Forms(calls, sorted) ==
    [calls |-> calls, sorted |-> sorted, oriented |-> FALSE, sizes |-> FALSE, nextra |-> 0,
     num_facets |-> 3, layers |-> 2]

\* one cell integral for every terminal tensor of the DAG
CellCalls(d) ==
    LET tn == NodesOfType(d, "Tensor")
    IN  [NoCalls EXCEPT !["cell"] = [i \in 1..Len(tn) |-> Call("cell", i, -1, tn[i])]]

\* a cell integral for the first terminal tensor only
FirstCellCall(d) == [NoCalls EXCEPT !["cell"] = Take(CellCalls(d)["cell"], 1)]

\* the calls of one integral type: none, one, or (subdomain types) three calls on
\* the subdomains 1, 2, 1
Pattern(it, n, t) ==
    IF n = 0 THEN <<>>
    ELSE IF it \in {"subdomains_exterior_facet", "subdomains_interior_facet"}
    THEN IF n = 1 THEN <<Call(it, 1, 2, t)>>
         ELSE <<Call(it, 1, 1, t), Call(it, 2, 2, t), Call(it, 3, 1, t)>>
    ELSE <<Call(it, 1, -1, t)>>

PatternsOf(it) ==
    IF it \in {"subdomains_exterior_facet", "subdomains_interior_facet"} THEN 0..2 ELSE 0..1

\* every choice of facet integrals on the tensor t
FacetCalls(t) ==
    {[it \in IntegralTypes |-> IF it \in FacetTypes THEN Pattern(it, sel[it], t) ELSE <<>>] :
        sel \in {f \in [FacetTypes -> 0..2] : \A it \in FacetTypes : f[it] \in PatternsOf(it)}}

\* every choice of horizontal-facet integrals on the tensor t
LayerCalls(t) ==
    {[it \in IntegralTypes |-> IF it \in LayerTypes THEN Pattern(it, sel[it], t) ELSE <<>>] :
        sel \in [LayerTypes -> 0..1]}

\* one exterior facet integral and/or one top integral, to make the kernel need them
NeedsCalls(t, facets, layers) ==
    [it \in IntegralTypes |->
        IF (it = "exterior_facet" /\ facets) \/ (it = "exterior_facet_top" /\ layers)
        THEN Pattern(it, 1, t) ELSE <<>>]

\* The forms over a terminal tensor: facet integrals on a triangle, horizontal
\* integrals on an extruded mesh of 1..MaxLayers cell layers, and the needs
SmallForms(d) ==
    LET t == NodesOfType(d, "Tensor")[1]
        o == [i \in 1..Len(d) |-> i]
    IN  {Forms(c, o) : c \in FacetCalls(t)}
        \cup {[Forms(c, o) EXCEPT !.layers = nl + 1] : c \in LayerCalls(t), nl \in 1..MaxLayers}
        \cup {[Forms(NeedsCalls(t, fc, ly), o) EXCEPT !.oriented = ori, !.sizes = sz, !.nextra = nx] :
                fc \in BOOLEAN, ly \in BOOLEAN, ori \in BOOLEAN, sz \in BOOLEAN,
                nx \in 0..MaxCoeffs}

FormsChoices(d) ==
    {Forms(c, o) : c \in {NoCalls, CellCalls(d), FirstCellCall(d)}, o \in TopologicalSorts(d)}
        \cup (IF Len(d) <= MaxFormNodes /\ d[1] = Terminal("Tensor", MixedTensorShapes)
              THEN SmallForms(d) ELSE {})

\* mixed expressions and expressions on two domains, on the small DAGs
FlagChoices(d) ==
    IF Len(d) <= MaxFormNodes
    THEN {<<FALSE, 1>>, <<TRUE, 1>>, <<FALSE, 2>>, <<TRUE, 2>>}
    ELSE {<<FALSE, 1>>}

-----------------------------------------------------------------------------
(* Execution of the emitted kernel body: which assembly calls run *)

\* env: the layer argument, the cell_facets buffer (rows <<marker, subdomain>>)
Cond(st, env, it) ==
    IF st.what = MeshLayerSym THEN env.layer = st.val
    ELSE env.cell_facets[it + 1][st.col + 1] = st.val

RECURSIVE ExecStmts(_, _, _)
ExecStmts(stmts, env, it) ==
    IF stmts = <<>> THEN <<>>
    ELSE LET st == stmts[1]
             here ==
                CASE st.k = "call" -> <<[call |-> st.call, facet |-> it]>>
                  [] st.k = "if" ->
                        IF Cond(st, env, it) THEN ExecStmts(st.then, env, it)
                        ELSE ExecStmts(st.else, env, it)
                  [] st.k = "for" /\ st.var = "i0" ->
                        Concat([i \in 1..st.bound |-> ExecStmts(st.body, env, i - 1)])
                  [] OTHER -> <<>>
         IN  here \o ExecStmts(Tail(stmts), env, it)

NoRun == [layer |-> -1, cell_facets |-> <<>>, trace |-> <<>>]

Markers == {0, 1} \X {0, 1, 2}

-----------------------------------------------------------------------------
(* The compilation of one expression: generate_kernel, step by step *)

NoBuilder == [temps |-> <<>>]

Raised == "raised"

NoForms == [calls |-> NoCalls]

InitGen ==
    /\ expr = [tensor_base |-> TRUE, is_mixed |-> FALSE, ndomains |-> 1, dag |-> <<>>,
               forms |-> NoForms]
    /\ gpc = "build"
    /\ bld = NoBuilder
    /\ declared_temps = <<>>
    /\ statements = <<>>
    /\ args = <<>>
    /\ kinfo = NoKernelInfo
    /\ run = NoRun
    /\ cache = <<>>
    /\ call = <<>>
    /\ gens = {}
    /\ rets = {}
    /\ ncalls = 0

\* A Slate constructor puts one more node on top of the expression
BuildNode ==
    /\ gpc = "build"
    /\ Len(expr.dag) < MaxNodes
    /\ \E nd \in NodeChoices(expr.dag) : expr' = [expr EXCEPT !.dag = Append(@, nd)]
    /\ UNCHANGED <<bld, gpc, declared_temps, statements, args, kinfo, run>>
    /\ UNCHANGED cacheVars

\* The expression is handed to the compiler, with the forms and mesh behind it
Compile ==
    /\ gpc = "build"
    /\ expr.dag # <<>>
    /\ Connected(expr.dag)
    /\ \E f \in FormsChoices(expr.dag) : \E fl \in FlagChoices(expr.dag) :
            expr' = [expr EXCEPT !.forms = f, !.is_mixed = fl[1], !.ndomains = fl[2]]
    /\ gpc' \in {"generate_kernel", "generate_loopy_kernel"}
    /\ UNCHANGED <<bld, declared_temps, statements, args, kinfo, run>>
    /\ UNCHANGED cacheVars

\* generate_kernel up to the construction of the builder
GenerateKernelEnter ==
    /\ gpc = "generate_kernel"
    /\ IF Unsupported(expr)
       THEN gpc' = Raised /\ UNCHANGED <<bld, declared_temps, statements>>
       ELSE /\ bld' = BuilderOf(expr)
            /\ declared_temps' = <<>>
            /\ statements' = <<>>
            /\ gpc' = "terminal_temporaries"
    /\ UNCHANGED <<expr, args, kinfo, run>>
    /\ UNCHANGED cacheVars

StepTerminalTemporaries ==
    /\ gpc = "terminal_temporaries"
    /\ LET r == TerminalTemporaries(bld, expr.dag, declared_temps)
       IN  IF ~r.ok THEN gpc' = Raised /\ UNCHANGED <<declared_temps, statements>>
           ELSE /\ declared_temps' = r.declared
                /\ statements' = statements \o r.stmts
                /\ gpc' = "tensor_assembly_calls"
    /\ UNCHANGED <<expr, bld, args, kinfo, run>>
    /\ UNCHANGED cacheVars

StepTensorAssemblyCalls ==
    /\ gpc = "tensor_assembly_calls"
    /\ statements' = statements \o TensorAssemblyCalls(bld)
    /\ gpc' = "coefficient_temporaries"
    /\ UNCHANGED <<expr, bld, declared_temps, args, kinfo, run>>
    /\ UNCHANGED cacheVars

StepCoefficientTemporaries ==
    /\ gpc = "coefficient_temporaries"
    /\ IF bld.coefficient_vecs = <<>>
       THEN gpc' = "auxiliary_expressions" /\ UNCHANGED <<declared_temps, statements>>
       ELSE LET r == CoefficientTemporaries(bld, declared_temps)
            IN  IF ~r.ok THEN gpc' = Raised /\ UNCHANGED <<declared_temps, statements>>
                ELSE /\ declared_temps' = r.declared
                     /\ statements' = statements \o r.stmts
                     /\ gpc' = "auxiliary_expressions"
    /\ UNCHANGED <<expr, bld, args, kinfo, run>>
    /\ UNCHANGED cacheVars

StepAuxiliaryExpressions ==
    /\ gpc = "auxiliary_expressions"
    /\ LET r == AuxiliaryExpressions(bld, expr.dag, declared_temps)
       IN  IF ~r.ok THEN gpc' = Raised /\ UNCHANGED <<declared_temps, statements>>
           ELSE /\ declared_temps' = r.declared
                /\ statements' = statements \o r.stmts
                /\ gpc' = "generate_kernel_ast"
    /\ UNCHANGED <<expr, bld, args, kinfo, run>>
    /\ UNCHANGED cacheVars

StepGenerateKernelAst ==
    /\ gpc = "generate_kernel_ast"
    /\ LET r == GenerateKernelAst(bld, expr.dag, statements, declared_temps)
       IN  IF ~r.ok THEN gpc' = Raised /\ UNCHANGED <<statements, args, kinfo>>
           ELSE /\ statements' = r.stmts
                /\ args' = r.args
                /\ kinfo' = r.kinfo
                /\ gpc' = "done"
    /\ UNCHANGED <<expr, bld, declared_temps, run>>
    /\ UNCHANGED cacheVars

\* generate_loopy_kernel up to the construction of the builder
GenerateLoopyKernelEnter ==
    /\ gpc = "generate_loopy_kernel"
    /\ IF Unsupported(expr)
       THEN gpc' = Raised /\ UNCHANGED bld
       ELSE bld' = BuilderOf(expr) /\ gpc' = "slate_to_gem"
    /\ UNCHANGED <<expr, declared_temps, statements, args, kinfo, run>>
    /\ UNCHANGED cacheVars

StepSlateToGem ==
    /\ gpc = "slate_to_gem"
    /\ gpc' = IF TranslatorRejects(expr.dag, Root(expr.dag)) THEN Raised ELSE "gem_to_loopy"
    /\ UNCHANGED <<expr, bld, declared_temps, statements, args, kinfo, run>>
    /\ UNCHANGED cacheVars

\* gem_to_loopy, and the KernelInfo of generate_loopy_kernel
StepGemToLoopy ==
    /\ gpc = "gem_to_loopy"
    /\ args' = GemToLoopyArgs(bld)
    /\ kinfo' = KernelInfo(bld, bld.needs_cell_orientations)
    /\ gpc' = "done_loopy"
    /\ UNCHANGED <<expr, bld, declared_temps, statements, run>>
    /\ UNCHANGED cacheVars

\* one invocation of the compiled kernel on a cell
RunKernel ==
    /\ gpc = "done"
    /\ \E layer \in (IF bld.needs_mesh_layers THEN 0..(bld.layers - 2) ELSE {-1}) :
       \E facets \in (IF bld.needs_cell_facets THEN [1..bld.num_facets -> Markers] ELSE {<<>>}) :
            run' = [layer |-> layer, cell_facets |-> facets,
                    trace |-> ExecStmts(statements, [layer |-> layer, cell_facets |-> facets], -1)]
    /\ gpc' = "ran"
    /\ UNCHANGED <<expr, bld, declared_temps, statements, args, kinfo>>
    /\ UNCHANGED cacheVars

NextGen ==
    \/ BuildNode
    \/ Compile
    \/ GenerateKernelEnter
    \/ StepTerminalTemporaries
    \/ StepTensorAssemblyCalls
    \/ StepCoefficientTemporaries
    \/ StepAuxiliaryExpressions
    \/ StepGenerateKernelAst
    \/ GenerateLoopyKernelEnter
    \/ StepSlateToGem
    \/ StepGemToLoopy
    \/ RunKernel

SpecGen == InitGen /\ [][NextGen]_vars

-----------------------------------------------------------------------------
(* compile_expression and the kernel cache of an expression *)

Workers == 1..NumWorkers

\* tsfc_parameters: a dict, i.e. items <<key, value>> in insertion order
ParamValues == {0}
Items == (1..MaxParamKeys) \X ParamValues

RECURSIVE DictsOfLen(_)
DictsOfLen(n) ==
    IF n = 0 THEN {<<>>}
    ELSE UNION {{Append(d, it) : it \in {x \in Items : \A i \in 1..Len(d) : d[i][1] # x[1]}} :
                    d \in DictsOfLen(n - 1)}

ParamDicts == UNION {DictsOfLen(n) : n \in 0..MaxParamKeys}

\* the tsfc_parameters argument: a dict, or None
Given(items) == [given |-> TRUE, items |-> items]
None == [given |-> FALSE, items |-> <<>>]

\* parameters["form_compiler"]
DefaultParameters == <<<<2, 0>>, <<1, 0>>>>

ItemLess(a, b) == a[1] < b[1] \/ (a[1] = b[1] /\ a[2] < b[2])

\* sorted(tsfc_parameters.items())
RECURSIVE Sorted(_)
Sorted(items) ==
    IF items = <<>> THEN <<>>
    ELSE LET m == CHOOSE x \in Range(items) : \A y \in Range(items) : x = y \/ ItemLess(x, y)
         IN  <<m>> \o Sorted(SelectSeq(items, LAMBDA x : x # m))

\* str of a list: its printed form
Str(list) == [str |-> list]

\* a key that keeps the order the items were given in
CacheKeyUnsorted(items) == Str(items)

\* a key that is the same for every parameter set
CacheKeyIgnoringItems(items) == Str(<<>>)

\* key = str(sorted(tsfc_parameters.items()))
CacheKey(items) == Str(Sorted(items))

\* cache[key] = kernel: a store that replaces what is there
SetDefaultOverwrite(c, key, kernel) ==
    [k \in DOMAIN c \cup {key} |-> IF k = key THEN kernel ELSE c[k]]

\* cache.setdefault(key, kernel): the dict afterwards
SetDefault(c, key, kernel) ==
    IF key \in DOMAIN c THEN c
    ELSE [k \in DOMAIN c \cup {key} |-> IF k = key THEN kernel ELSE c[k]]

\* SlateKernel.__init__: generate_kernel with coffee, generate_loopy_kernel without
SlateKernel(e, coffee) == IF coffee THEN GenerateKernel(e) ELSE GenerateLoopyKernel(e)

\* The expressions compile_expression is called on
Push(d, type, ops, idx) == Append(d, OpNode(d, type, ops, idx))

TensorA == <<Terminal("Tensor", MixedTensorShapes)>>

WithCells(d) == SlateExpr(d, Forms(CellCalls(d), [i \in 1..Len(d) |-> i]))

\* A.inv * A
GoodExpr == WithCells(Push(Push(TensorA, "Inverse", <<1>>, <<>>), "Mul", <<2, 1>>, <<>>))
\* A + A.T
OtherExpr == WithCells(Push(Push(TensorA, "Transpose", <<1>>, <<>>), "Add", <<1, 2>>, <<>>))
MixedExpr == [WithCells(TensorA) EXCEPT !.is_mixed = TRUE]
TwoDomainExpr == [WithCells(TensorA) EXCEPT !.ndomains = 2]
\* a block of the components 0 and 2 of A
NonContiguousExpr == WithCells(Push(TensorA, "Block", <<1>>, <<<<0, 2>>, <<0>>>>))
Rank3Expr == WithCells(<<Terminal("Tensor", Rank3Shapes)>>)
\* a node of a type slate_to_cpp does not know
OtherTypeExpr == WithCells(Push(TensorA, "TensorOp", <<1>>, <<>>))
\* an object that is no TensorBase
NotATensor == [WithCells(TensorA) EXCEPT !.tensor_base = FALSE]

CacheExprs ==
    <<GoodExpr, OtherExpr, MixedExpr, TwoDomainExpr, NonContiguousExpr, Rank3Expr,
      OtherTypeExpr, NotATensor>>

NoKernel == [id |-> 0]

IdleCall ==
    [pc |-> "idle", e |-> 0, coffee |-> FALSE, params |-> <<>>, key |-> Str(<<>>),
     kernel |-> NoKernel,
     ret |-> NoKernel, snap |-> <<>>, prior |-> NoKernel, ngen |-> 0]

\* the kernel an earlier call returned for this expression and a parameter set of
\* the same sorted items, if any
Prior(ei, params) ==
    IF \E r \in rets : r.e = ei /\ r.params = params
    THEN (CHOOSE r \in rets : r.e = ei /\ r.params = params).kernel
    ELSE NoKernel

InitCache ==
    /\ cache = [ei \in 1..Len(CacheExprs) |-> <<>>]
    /\ call = [w \in Workers |-> IdleCall]
    /\ gens = {}
    /\ rets = {}
    /\ ncalls = 0
    /\ expr = [tensor_base |-> TRUE, is_mixed |-> FALSE, ndomains |-> 1, dag |-> <<>>,
               forms |-> NoForms]
    /\ gpc = "idle"
    /\ bld = NoBuilder
    /\ declared_temps = <<>>
    /\ statements = <<>>
    /\ args = <<>>
    /\ kinfo = NoKernelInfo
    /\ run = NoRun

\* compile_expression up to the cache lookup: the isinstance test, the key, cache[key]
Lookup(w, ei, params, coffee) ==
    LET e == CacheExprs[ei]
        tsfc_parameters == IF params.given THEN params.items ELSE DefaultParameters
        key == CacheKey(tsfc_parameters)
        started == [IdleCall EXCEPT !.e = ei, !.coffee = coffee, !.key = key,
                                    !.params = Sorted(tsfc_parameters),
                                    !.snap = cache,
                                    !.prior = Prior(ei, Sorted(tsfc_parameters))]
    IN  /\ call[w].pc = "idle"
        /\ ncalls' = ncalls + 1
        /\ IF ~e.tensor_base
           THEN /\ call' = [call EXCEPT ![w] = [started EXCEPT !.pc = "raised"]]
                /\ UNCHANGED rets
           ELSE IF key \in DOMAIN cache[ei]
           THEN /\ call' = [call EXCEPT ![w] = [started EXCEPT !.pc = "returned",
                                                               !.ret = cache[ei][key]]]
                /\ rets' = rets \cup {[e |-> ei, params |-> Sorted(tsfc_parameters),
                                        kernel |-> cache[ei][key]]}
           ELSE /\ call' = [call EXCEPT ![w] = [started EXCEPT !.pc = "generate"]]
                /\ UNCHANGED rets
        /\ UNCHANGED <<cache, gens>>
        /\ UNCHANGED genVars

\* a generation that leaves an entry in the cache when it fails
GenerateCachingFailure(w) ==
    LET c == call[w]
        r == SlateKernel(CacheExprs[c.e], c.coffee)
    IN  /\ c.pc = "generate"
        /\ ~r.ok
        /\ cache' = [cache EXCEPT ![c.e] = SetDefault(cache[c.e], c.key, NoKernel)]
        /\ call' = [call EXCEPT ![w] = [c EXCEPT !.pc = "raised", !.ngen = c.ngen + 1]]
        /\ UNCHANGED <<gens, rets, ncalls>>
        /\ UNCHANGED genVars

\* the except branch: SlateKernel(slate_expr, tsfc_parameters, coffee).split_kernel
Generate(w) ==
    LET c == call[w]
        r == SlateKernel(CacheExprs[c.e], c.coffee)
        kernel == [id |-> Cardinality({g \in gens : g.e = c.e /\ g.params = c.params}) + 1,
                   e |-> c.e, params |-> c.params,
                   coffee |-> c.coffee, kinfo |-> r.kinfo]
    IN  /\ c.pc = "generate"
        /\ IF r.ok
           THEN /\ call' = [call EXCEPT ![w] = [c EXCEPT !.pc = "insert", !.kernel = kernel,
                                                          !.ngen = c.ngen + 1]]
                /\ gens' = gens \cup {kernel}
           ELSE /\ call' = [call EXCEPT ![w] = [c EXCEPT !.pc = "raised", !.ngen = c.ngen + 1]]
                /\ UNCHANGED gens
        /\ UNCHANGED <<cache, rets, ncalls>>
        /\ UNCHANGED genVars

\* return cache.setdefault(key, kernel)
Insert(w) ==
    LET c == call[w]
        after == SetDefault(cache[c.e], c.key, c.kernel)
    IN  /\ c.pc = "insert"
        /\ cache' = [cache EXCEPT ![c.e] = after]
        /\ call' = [call EXCEPT ![w] = [c EXCEPT !.pc = "returned", !.ret = after[c.key]]]
        /\ rets' = rets \cup {[e |-> c.e, params |-> c.params, kernel |-> after[c.key]]}
        /\ UNCHANGED <<gens, ncalls>>
        /\ UNCHANGED genVars

\* the caller has the kernel, or the exception
Finish(w) ==
    /\ call[w].pc \in {"returned", "raised"}
    /\ call' = [call EXCEPT ![w] = IdleCall]
    /\ UNCHANGED <<cache, gens, rets, ncalls>>
    /\ UNCHANGED genVars

CallChoices == (1..Len(CacheExprs)) \X ({Given(p) : p \in ParamDicts} \cup {None}) \X BOOLEAN

\* workers call compile_expression concurrently
LookupAny ==
    \E w \in Workers : \E a \in CallChoices :
        /\ ncalls < MaxConcurrentCalls
        /\ Lookup(w, a[1], a[2], a[3])
\* one call at a time
LookupAlone ==
    \E w \in Workers : \E a \in CallChoices :
        /\ ncalls < MaxCalls
        /\ \A v \in Workers : call[v].pc = "idle"
        /\ Lookup(w, a[1], a[2], a[3])
GenerateAny == \E w \in Workers : Generate(w)
InsertAny == \E w \in Workers : Insert(w)
FinishAny == \E w \in Workers : Finish(w)

NextConcurrent == LookupAny \/ GenerateAny \/ InsertAny \/ FinishAny
NextSequential == LookupAlone \/ GenerateAny \/ InsertAny \/ FinishAny

SpecConcurrent == InitCache /\ [][NextConcurrent]_vars
SpecSequential == InitCache /\ [][NextSequential]_vars

-----------------------------------------------------------------------------
(* slate_to_cpp and eigen_matrixbase_type called on their own *)

\* The expressions handed to the two functions: a Block with every row and
\* column tuple of 1..MaxComponents component numbers (any order, repeats
\* included) over a mixed tensor or vector with component extents 1, 2, 1, ...;
\* one operator, of every type and of an unknown one, on terminals of rank 0
\* to 3; and an operator on top of such an expression.
LowerDags ==
    LET extents == [i \in 1..MaxComponents |-> IF i % 2 = 0 THEN 2 ELSE 1]
        tensor == Terminal("Tensor", <<extents, extents>>)
        vector == Terminal("AssembledVector", <<extents>>)
        tuples == UNION {[1..n -> 0..(MaxComponents - 1)] : n \in 1..MaxComponents}
        terminals == {tensor, vector, Terminal("Tensor", ScalarShapes),
                      Terminal("Tensor", Rank3Shapes)}
        one == {Push(<<t>>, ty, <<1>>, <<>>) :
                    t \in terminals, ty \in (UnaryTypes \ {"Block"}) \cup {"TensorOp"}}
        two == {Push(<<t, t>>, ty, <<1, 2>>, <<>>) : t \in terminals, ty \in BinaryTypes}
    IN  {Push(<<tensor>>, "Block", <<1>>, <<r, c>>) : r \in tuples, c \in tuples}
            \cup {Push(<<vector>>, "Block", <<1>>, <<r>>) : r \in tuples}
            \cup {<<t>> : t \in terminals} \cup one \cup two
            \cup {Push(d, ty, <<Len(d)>>, <<>>) : d \in one \cup two, ty \in {"Inverse", "Negative"}}
            \cup {Push(d, "Block", <<Len(d)>>, <<<<0, 2>>, <<0>>>>) :
                    d \in {Push(<<tensor>>, "Transpose", <<1>>, <<>>)}}

\* the terminals have the temporaries terminal_temporaries gives them, or none
InitLower ==
    /\ expr \in {[tensor_base |-> TRUE, is_mixed |-> FALSE, ndomains |-> 1, dag |-> d,
                  forms |-> NoForms] : d \in LowerDags}
    /\ declared_temps \in
            {[n \in {n \in 1..Len(expr.dag) : expr.dag[n].type \in TerminalTypes} |->
                Sym("T", n - 1)],
             <<>>}
    /\ gpc = "input"
    /\ bld = NoBuilder
    /\ statements = <<>>
    /\ args = <<>>
    /\ kinfo = NoKernelInfo
    /\ run = NoRun
    /\ cache = <<>>
    /\ call = <<>>
    /\ gens = {}
    /\ rets = {}
    /\ ncalls = 0

\* slate_to_cpp(expr, temps)
CallSlateToCpp ==
    /\ gpc = "input"
    /\ LET r == SlateToCpp(expr.dag, Root(expr.dag), declared_temps, NoPrec)
       IN  IF r.ok
           THEN statements' = <<Incr(Sym("T", Len(expr.dag)), r.code)>> /\ gpc' = "lowered"
           ELSE gpc' = Raised /\ UNCHANGED statements
    /\ UNCHANGED <<expr, bld, declared_temps, args, kinfo, run>>
    /\ UNCHANGED cacheVars

\* eigen_matrixbase_type(expr.shape)
CallEigenMatrixbaseType ==
    /\ gpc = "input"
    /\ LET ty == EigenMatrixbaseType(Shape(expr.dag[Root(expr.dag)]))
       IN  IF ty.ok
           THEN statements' = <<Decl(ty.code, Sym("T", Len(expr.dag)))>> /\ gpc' = "typed"
           ELSE gpc' = "raised_type" /\ UNCHANGED statements
    /\ UNCHANGED <<expr, bld, declared_temps, args, kinfo, run>>
    /\ UNCHANGED cacheVars

NextLower == CallSlateToCpp \/ CallEigenMatrixbaseType

SpecLower == InitLower /\ [][NextLower]_vars

-----------------------------------------------------------------------------
(* The routines inverse_ and solve_ of the preambles, statement by statement. *)
(* run holds the routine's frame and what the kernel has seen so far.         *)

\* what a LAPACK routine leaves in info for a matrix of order n: 0, i > 0 for a
\* zero pivot U(i,i), a negative number (here -1) for an illegal argument
LapackStatus(n) == {-1} \cup (0..n)

\* the kernel before any call: nothing on stderr, no call made.  getrf_info,
\* getri and printed record what the current call has done so far.
InitLapack ==
    /\ gpc = "kernel"
    /\ run = [routine |-> "none", N |-> 0, info |-> 0, getrf_info |-> <<>>,
              getri |-> FALSE, printed |-> FALSE, stderr |-> <<>>, calls |-> 0]
    /\ expr = [tensor_base |-> TRUE, is_mixed |-> FALSE, ndomains |-> 1, dag |-> <<>>,
               forms |-> NoForms]
    /\ bld = NoBuilder
    /\ declared_temps = <<>>
    /\ statements = <<>>
    /\ args = <<>>
    /\ kinfo = NoKernelInfo
    /\ cache = <<>>
    /\ call = <<>>
    /\ gens = {}
    /\ rets = {}
    /\ ncalls = 0

\* the generated kernel calls inverse_(A, N): PetscBLASInt info; (not
\* initialized, so any value) and the two malloc
CallInverse ==
    /\ gpc = "kernel"
    /\ run.calls < MaxRoutineCalls
    /\ \E n \in 1..MaxOrder : \E garbage \in LapackStatus(n) :
        run' = [run EXCEPT !.routine = "inverse_", !.N = n, !.info = garbage,
                           !.getrf_info = <<>>, !.getri = FALSE, !.printed = FALSE]
    /\ gpc' = "getrf"
    /\ UNCHANGED <<expr, bld, declared_temps, statements, args, kinfo>>
    /\ UNCHANGED cacheVars

\* LAPACKgetrf_(&N,&N,A,&N,ipiv,&info);
Getrf ==
    /\ gpc = "getrf"
    /\ \E st \in LapackStatus(run.N) : run' = [run EXCEPT !.info = st, !.getrf_info = <<st>>]
    /\ gpc' = "if_info_zero"
    /\ UNCHANGED <<expr, bld, declared_temps, statements, args, kinfo>>
    /\ UNCHANGED cacheVars

\* LAPACKgetri_ called whatever getrf left in info
GetriUnconditional ==
    /\ gpc = "if_info_zero"
    /\ \E st \in LapackStatus(run.N) : run' = [run EXCEPT !.info = st, !.getri = TRUE]
    /\ gpc' = "if_info_nonzero"
    /\ UNCHANGED <<expr, bld, declared_temps, statements, args, kinfo>>
    /\ UNCHANGED cacheVars

\* if(info==0) LAPACKgetri_(&N,A,&N,ipiv,Awork,&N,&info);
IfInfoZeroGetri ==
    /\ gpc = "if_info_zero"
    /\ IF run.info = 0
       THEN \E st \in LapackStatus(run.N) : run' = [run EXCEPT !.info = st, !.getri = TRUE]
       ELSE UNCHANGED run
    /\ gpc' = "if_info_nonzero"
    /\ UNCHANGED <<expr, bld, declared_temps, statements, args, kinfo>>
    /\ UNCHANGED cacheVars

\* the generated kernel calls solve_(A, B, N): PetscBLASInt info; (not
\* initialized, so any value), malloc, NRHS=1;
CallSolve ==
    /\ gpc = "kernel"
    /\ run.calls < MaxRoutineCalls
    /\ \E n \in 1..MaxOrder : \E garbage \in LapackStatus(n) :
        run' = [run EXCEPT !.routine = "solve_", !.N = n, !.info = garbage,
                           !.getrf_info = <<>>, !.getri = FALSE, !.printed = FALSE]
    /\ gpc' = "gesv"
    /\ UNCHANGED <<expr, bld, declared_temps, statements, args, kinfo>>
    /\ UNCHANGED cacheVars

\* LAPACKgesv_(&N,&NRHS,A,&N,ipiv,B,&N,&info);
Gesv ==
    /\ gpc = "gesv"
    /\ \E st \in LapackStatus(run.N) : run' = [run EXCEPT !.info = st]
    /\ gpc' = "if_info_nonzero"
    /\ UNCHANGED <<expr, bld, declared_temps, statements, args, kinfo>>
    /\ UNCHANGED cacheVars

\* if(info!=0) fprintf(stderr, "... throws nonzero info.");
IfInfoNonzeroPrint ==
    /\ gpc = "if_info_nonzero"
    /\ IF run.info # 0
       THEN run' = [run EXCEPT !.printed = TRUE,
                               !.stderr = Append(@, IF run.routine = "inverse_"
                                                    THEN "Getri throws nonzero info."
                                                    ELSE "Gesv throws nonzero info.")]
       ELSE UNCHANGED run
    /\ gpc' = "return"
    /\ UNCHANGED <<expr, bld, declared_temps, statements, args, kinfo>>
    /\ UNCHANGED cacheVars

\* the closing brace: control is back in the generated kernel
ReturnToKernel ==
    /\ gpc = "return"
    /\ run' = [run EXCEPT !.calls = @ + 1]
    /\ gpc' = "kernel"
    /\ UNCHANGED <<expr, bld, declared_temps, statements, args, kinfo>>
    /\ UNCHANGED cacheVars

NextLapack ==
    \/ CallInverse
    \/ Getrf
    \/ IfInfoZeroGetri
    \/ CallSolve
    \/ Gesv
    \/ IfInfoNonzeroPrint
    \/ ReturnToKernel

\* a routine that was entered runs on: the statements are straight-line C and
\* the LAPACK routines come back with a status
SpecLapack == InitLapack /\ [][NextLapack]_vars /\ WF_vars(NextLapack)

-----------------------------------------------------------------------------
(* The kernel cache of an expression                                        *)

\* the successful generations for one expression and one sorted parameter list
Generations(ei, params) == {g \in gens : g.e = ei /\ g.params = params}

\* C1: when calls come one after another, a call made after a call on the same
\* expression with parameters of the same sorted items has returned a kernel
\* returns that kernel and generates nothing, and no (expression, parameters)
\* pair is ever generated successfully twice.
C1_CacheHitAfterReturn ==
    /\ \A w \in Workers :
          call[w].prior # NoKernel =>
              /\ call[w].pc = "returned"
              /\ call[w].ret = call[w].prior
              /\ call[w].ngen = 0
    /\ \A g \in gens : Cardinality(Generations(g.e, g.params)) = 1

\* a second call whose items come in another order than the first call's hits
C1_Witness ==
    \E w \in Workers : \E r \in rets :
        /\ call[w].prior # NoKernel
        /\ call[w].pc = "returned"
        /\ call[w].params = <<<<1, 0>>, <<2, 0>>>>
        /\ call[w].ret = call[w].prior
        /\ r.kernel = call[w].ret

\* C2: a call that has raised leaves every expression's cache as it was when the
\* call began, and has tried the generation at most once.
C2_RaiseLeavesCache ==
    \A w \in Workers :
        call[w].pc = "raised" => cache = call[w].snap /\ call[w].ngen <= 1

\* a generation has raised while the cache of another expression holds a kernel
C2_Witness ==
    \E w \in Workers :
        /\ call[w].pc = "raised"
        /\ call[w].ngen = 1
        /\ \E ei \in 1..Len(CacheExprs) : DOMAIN cache[ei] # {}

\* C3: with workers calling concurrently, at most one generation is done for an
\* expression and a parameter set.
C3_OneGenerationPerKey ==
    \A ei \in 1..Len(CacheExprs) : \A w, v \in Workers :
        (/\ w # v
         /\ call[w].e = ei /\ call[v].e = ei
         /\ call[w].params = call[v].params
         /\ call[w].pc \in {"insert", "returned"}
         /\ call[v].pc \in {"insert", "returned"})
        => call[w].ngen + call[v].ngen <= 1

-----------------------------------------------------------------------------
(* The generated kernel body *)

Generated == gpc \in {"done", "ran"}

\* the symbol a symbol token names
TokSym(t) == [p |-> t.p, i |-> t.i, j |-> t.a[1]]

CodeSyms(code) == {TokSym(code[x]) : x \in {y \in 1..Len(code) : code[y].k = "sym"}}

StmtCode(st) == IF st.k \in {"assign", "incr", "factor"} THEN st.code ELSE <<>>

\* the assembly calls inside a list of statements
RECURSIVE CallsIn(_)
CallsIn(stmts) ==
    IF stmts = <<>> THEN {}
    ELSE LET st == stmts[1]
             here == CASE st.k = "call" -> {st.call}
                       [] st.k = "if" -> CallsIn(st.then) \cup CallsIn(st.else)
                       [] st.k = "for" -> CallsIn(st.body)
                       [] OTHER -> {}
         IN  here \cup CallsIn(Tail(stmts))

\* the temporaries the assembly calls inside a statement accumulate into
CallTargets(st) == {declared_temps[c.tensor] : c \in CallsIn(<<st>>)}

Declares(st) == IF st.k \in {"decl", "factor", "map", "cast"} THEN {st.sym} ELSE {}

Writes(st) ==
    CASE st.k \in {"setZero", "assign", "factor", "map", "cast"} -> {st.sym}
      [] st.k = "for" /\ st.var = "j1" -> {st.body[x].sym : x \in 1..Len(st.body)}
      [] OTHER -> CallTargets(st)

Reads(st) ==
    CASE st.k \in {"assign", "factor"} -> CodeSyms(st.code)
      [] st.k = "incr" -> CodeSyms(st.code) \cup {st.sym}
      [] st.k = "for" /\ st.var = "i0" -> CallTargets(st) \cup {CellFacetSym}
      [] OTHER -> CallTargets(st)

\* the part of generate_kernel a statement of the final list comes from
Stage(st) ==
    CASE st.k = "cast" -> 0
      [] st.k = "comment" ->
            (CASE st.text = "Declare and initialize" -> 1
               [] st.text \in {"Assemble local tensors", "Loop over cell facets", "Mesh levels:"} -> 2
               [] st.text \in {"Coefficient temporaries", "Loops for coefficient temps"} -> 3
               [] OTHER -> 5)
      [] st.k \in {"decl", "setZero"} ->
            (CASE st.sym.p = "T" -> 1 [] st.sym.p = "VT" -> 3 [] OTHER -> 4)
      [] st.k \in {"call", "if"} -> 2
      [] st.k = "for" -> IF st.var = "i0" THEN 2 ELSE 3
      [] st.k \in {"assign", "factor"} -> 4
      [] OTHER -> 5

\* the positions of the final statement list where node n is expanded: an operator
\* of n is emitted, or the decomposition object of n is constructed
Sites(n) ==
    {<<i, x>> \in (1..Len(statements)) \X (0..(4 * MaxNodes + 4)) :
        \/ /\ x >= 1
           /\ x <= Len(StmtCode(statements[i]))
           /\ StmtCode(statements[i])[x].k = "op"
           /\ StmtCode(statements[i])[x].i = n
        \/ /\ x = 0
           /\ expr.dag[n].type = "Factorization"
           /\ statements[i].k = "factor"
           /\ n \in DOMAIN declared_temps
           /\ statements[i].sym = declared_temps[n]}

Shared(n) ==
    /\ bld.ref_counter[n] > 1
    /\ expr.dag[n].type \notin TerminalTypes \cup {"Transpose", "Negative"}

\* C4: in the generated body every node that is referenced more than once and is
\* no terminal, Transpose or Negative is expanded at exactly one place, the
\* statement that defines its temporary; everywhere else its temporary is named.
C4_SharedNodeLoweredOnce ==
    Generated =>
        \A n \in 1..Len(expr.dag) :
            Shared(n) =>
                /\ n \in DOMAIN declared_temps
                /\ Cardinality(Sites(n)) = 1
                /\ \A site \in Sites(n) :
                        /\ statements[site[1]].k \in {"assign", "factor"}
                        /\ statements[site[1]].sym = declared_temps[n]

\* a shared inverse is written to its temporary and the root names the temporary
C4_Witness ==
    /\ Generated
    /\ \E n \in 1..Len(expr.dag) :
            /\ Shared(n)
            /\ expr.dag[n].type = "Inverse"
            /\ declared_temps[n] \in CodeSyms(statements[Len(statements)].code)

AfterAuxiliary == gpc \in {"generate_kernel_ast", "done", "ran"}

\* C5: once terminal_temporaries, coefficient_temporaries and
\* auxiliary_expressions have run, the nodes with an entry in declared_temps are
\* exactly the terminals, the factorizations, and the nodes referenced more than
\* once that are no terminal, Transpose or Negative.
C5_DeclaredTempsExactly ==
    AfterAuxiliary =>
        DOMAIN declared_temps =
            {n \in 1..Len(expr.dag) :
                \/ expr.dag[n].type \in TerminalTypes
                \/ expr.dag[n].type = "Factorization"
                \/ (bld.ref_counter[n] > 1
                        /\ expr.dag[n].type \notin TerminalTypes \cup {"Transpose", "Negative"})}

\* a Transpose with two parents has no temporary
C5_Witness ==
    /\ AfterAuxiliary
    /\ \E n \in 1..Len(expr.dag) :
            /\ expr.dag[n].type = "Transpose"
            /\ bld.ref_counter[n] > 1
            /\ n \notin DOMAIN declared_temps

\* C6: in the final statement list every symbol is declared before the first
\* statement that uses it and written before the first statement that reads it,
\* and the statements come in the order cast, terminal declarations, assembly
\* calls, coefficient temporaries, auxiliary temporaries, result.
C6_WrittenBeforeRead ==
    Generated =>
        /\ \A i \in 1..Len(statements) :
            /\ \A sym \in Reads(statements[i]) \cup (Writes(statements[i]) \ Declares(statements[i])) :
                    \E j \in 1..(i - 1) : sym \in Declares(statements[j])
            /\ \A sym \in Reads(statements[i]) :
                    \E j \in 1..(i - 1) : sym \in Writes(statements[j])
        /\ \A i \in 1..Len(statements) : \A j \in i..Len(statements) :
                Stage(statements[i]) <= Stage(statements[j])

\* the cast of the facet markers stands first and the facet loop reads them
C6_Witness ==
    /\ Generated
    /\ statements[1].k = "cast"
    /\ \E i \in 2..Len(statements) :
            /\ statements[i].k = "for"
            /\ CellFacetSym \in Reads(statements[i])
            /\ CallTargets(statements[i]) # {}

\* where the declaration of the i-th terminal temporary stands
DeclAt(i) ==
    {q \in 1..Len(statements) :
        statements[q].k = "decl" /\ statements[q].sym = bld.temps[i].sym}

\* C7: every terminal temporary of builder.temps is declared once, its setZero is
\* the next statement, the declarations come in the order of builder.temps, every
\* statement holding an assembly call comes after all of them, and nothing but an
\* assembly call writes the temporary afterwards.
C7_TerminalsZeroFilledFirst ==
    Generated =>
        /\ \A i \in 1..Len(bld.temps) :
            /\ Cardinality(DeclAt(i)) = 1
            /\ \A q \in DeclAt(i) :
                /\ q < Len(statements)
                /\ statements[q + 1] = SetZero(bld.temps[i].sym)
                /\ \A r \in 1..Len(statements) :
                        CallsIn(<<statements[r]>>) # {} => r > q + 1
                /\ \A r \in 1..Len(statements) :
                        (r # q + 1 /\ bld.temps[i].sym \in Writes(statements[r]))
                            => bld.temps[i].sym \in CallTargets(statements[r])
        /\ \A i \in 1..Len(bld.temps) : \A k \in 1..Len(bld.temps) :
                i < k => \A q \in DeclAt(i) : \A r \in DeclAt(k) : q < r

\* two terminal tensors, one of them without an assembly call, read by the root
C7_Witness ==
    /\ Generated
    /\ Len(bld.temps) = 2
    /\ \E c \in CallsIn(statements) : c.tensor = bld.temps[1].node
    /\ \A c \in CallsIn(statements) : c.tensor # bld.temps[2].node
    /\ bld.temps[2].sym \in CodeSyms(statements[Len(statements)].code)

-----------------------------------------------------------------------------
(* The assembly calls a run of the kernel makes, and the argument list *)

\* the calls of the run that belong to the integral types in types, in order
TraceCalls(types) ==
    LET tr == SelectSeq(run.trace, LAMBDA x : x.call.it \in types)
    IN  [x \in 1..Len(tr) |-> tr[x].call]

HorizCalls(it) == bld.assembly_calls[it]

Interior(it) == it \in {"interior_facet", "interior_facet_vert", "subdomains_interior_facet"}
Exterior(it) == it \in {"exterior_facet", "exterior_facet_vert", "subdomains_exterior_facet"}
OnSubdomain(it) == it \in {"subdomains_interior_facet", "subdomains_exterior_facet"}

\* the marker row of a facet selects the call
Selected(c, row) ==
    /\ (Interior(c.it) /\ row[1] = 1) \/ (Exterior(c.it) /\ row[1] = 0)
    /\ OnSubdomain(c.it) => row[2] = c.sd

FacetCallSet == UNION {Range(bld.assembly_calls[it]) : it \in FacetTypes}

TimesRun(c, f) ==
    Cardinality({x \in 1..Len(run.trace) : run.trace[x] = [call |-> c, facet |-> f]})

\* C9: a run of the kernel makes every facet call once for each local facet whose
\* marker selects it: interior calls where column 0 is 1, exterior calls where it
\* is 0, subdomain calls only where column 1 is their subdomain id as well; and
\* makes it for no other facet.
C9_FacetDispatch ==
    (gpc = "ran" /\ bld.needs_cell_facets) =>
        \A f \in 0..(bld.num_facets - 1) : \A c \in FacetCallSet :
            TimesRun(c, f) = IF Selected(c, run.cell_facets[f + 1]) THEN 1 ELSE 0

\* the markers [[1,0],[0,0],[1,2]] with interior, exterior and subdomain integrals
C9_Witness ==
    /\ gpc = "ran"
    /\ bld.needs_cell_facets
    /\ run.cell_facets = << <<1, 0>>, <<0, 0>>, <<1, 2>> >>
    /\ bld.assembly_calls["interior_facet"] # <<>>
    /\ bld.assembly_calls["exterior_facet"] # <<>>
    /\ Len(bld.assembly_calls["subdomains_interior_facet"]) = 3
    /\ TimesRun(bld.assembly_calls["subdomains_interior_facet"][2], 2) = 1

\* the place of a kind of argument in the order the claim gives
ArgRank(role) ==
    CASE role = "output" -> 1
      [] role = "coords" -> 2
      [] role = "orientations" -> 3
      [] role = "coefficient" -> 4
      [] role = "cell_sizes" -> 5
      [] role = "cell_facets" -> 6
      [] role = "layer" -> 7
      [] OTHER -> 0

\* C10: the argument list of a generated kernel, its temporaries left aside, is in
\* the order output, coordinates, orientations, coefficients, cell sizes, facet
\* markers, layer, and the layer argument, when there is one, is the last.
C10_ArgumentOrder ==
    (gpc \in {"done", "done_loopy"}) =>
        LET named == SelectSeq(args, LAMBDA a : ArgRank(a.role) > 0)
        IN  /\ \A i \in 1..Len(named) : \A j \in i..Len(named) :
                    ArgRank(named[i].role) <= ArgRank(named[j].role)
            /\ (\E i \in 1..Len(args) : args[i].role = "layer")
                    => args[Len(args)].role = "layer"

-----------------------------------------------------------------------------
(* C11: block extraction *)

BlockRoot == expr.dag[Root(expr.dag)].type = "Block"

BlockOperand == expr.dag[expr.dag[Root(expr.dag)].ops[1]]

RowIds == expr.dag[Root(expr.dag)].idx[1]

ColIds == expr.dag[Root(expr.dag)].idx[2]

\* a run of consecutive increasing integers
ConsecutiveRun(ids) == \E lo \in 0..MaxComponents : ids = [j \in 1..Len(ids) |-> lo + j - 1]

\* the entries of component k (counted from 0) of an axis with these extents
ComponentEntries(extents, k) ==
    [j \in 1..extents[k + 1] |-> SumSeq(SubSeq(extents, 1, k)) + j - 1]

\* direct indexing of the full operand: the entries of the selected components, in order
DirectIndexing(extents, ids) ==
    Concat([j \in 1..Len(ids) |-> ComponentEntries(extents, ids[j])])

\* the entries that  .block<extent, _>(start, _)  selects on one axis
Extracted(start, extent) == [j \in 1..extent |-> start + j - 1]

\* the arguments <<rshape, cshape, rstart, cstart>> of the emitted extraction
EmittedBlock ==
    LET code == statements[1].code
        at == CHOOSE x \in 1..Len(code) : code[x].p = "block" /\ code[x].i = Root(expr.dag)
    IN  code[at].a

BlockLowered == BlockRoot /\ gpc = "lowered"

\* C11: a Block whose operand lowers is refused exactly when its row tuple or its
\* column tuple is not a run of consecutive increasing integers; otherwise the
\* emitted extraction selects, on each axis, the same entries as direct indexing
\* of the full operand (column 0, width 1 for a rank-1 block).
C11_BlockExtraction ==
    (BlockRoot /\ declared_temps # <<>> /\ gpc \in {"lowered", Raised}) =>
        LET rank2 == Len(BlockOperand.shapes) = 2
            runs == ConsecutiveRun(RowIds) /\ (rank2 => ConsecutiveRun(ColIds))
        IN  /\ (gpc = Raised) <=> ~runs
            /\ gpc = Raised => statements = <<>>
            /\ gpc = "lowered" =>
                /\ Extracted(EmittedBlock[3], EmittedBlock[1]) =
                        DirectIndexing(BlockOperand.shapes[1], RowIds)
                /\ IF rank2
                   THEN Extracted(EmittedBlock[4], EmittedBlock[2]) =
                            DirectIndexing(BlockOperand.shapes[2], ColIds)
                   ELSE EmittedBlock[4] = 0 /\ EmittedBlock[2] = 1

\* a block of two components that does not start at the first one, extracted
C11_Witness ==
    /\ BlockLowered
    /\ Len(BlockOperand.shapes) = 2
    /\ RowIds = <<1, 2>>
    /\ ColIds = <<1>>
    /\ EmittedBlock = <<3, 2, 1, 1>>

-----------------------------------------------------------------------------
(* C12: the index ranges of the components of a mixed coefficient *)

VectorNodes == {n \in 1..Len(expr.dag) : expr.dag[n].type = "AssembledVector"}

\* positions <<q, b>> of the assignments into the temporary of vector v
CoeffWritesAt(v) ==
    UNION {{<<q, b>> : b \in {b \in 1..Len(statements[q].body) :
                                /\ statements[q].body[b].k = "cassign"
                                /\ statements[q].body[b].sym = declared_temps[v]}} :
            q \in {q \in 1..Len(statements) : statements[q].k = "for"}}

\* the indices of the temporary that the assignment at <<q, b>> writes
WrittenRange(qb) ==
    LET st == statements[qb[1]]
    IN  {st.body[qb[2]].offset + j : j \in 0..(st.bound - 1)}

\* rows of the temporary's declaration
DeclaredRows(sym) ==
    LET q == CHOOSE q \in 1..Len(statements) :
                statements[q].k = "decl" /\ statements[q].sym = sym
    IN  statements[q].type.rows

\* C12: in a generated kernel, component k of a coefficient with DOF extents
\* d0, d1, ... is copied by one assignment into the range [offset_k, offset_k + d_k)
\* of the coefficient's temporary, offset_k = d0 + ... + d_(k-1); the ranges of
\* the components are pairwise disjoint and together are the whole temporary.
C12_ComponentRanges ==
    Generated =>
        \A v \in VectorNodes :
            LET exts == expr.dag[v].shapes[1]
                f == CHOOSE k \in 1..Len(bld.coefficient) :
                        \E ci \in Range(CoefficientInfos(expr.dag)) :
                            ci.vector = v /\ ci.function = k
                srcs == bld.coefficient[f]
                at(k) == {qb \in CoeffWritesAt(v) :
                            statements[qb[1]].body[qb[2]].src = srcs[k]}
            IN  /\ Len(srcs) = Len(exts)
                /\ \A k \in 1..Len(exts) :
                    /\ Cardinality(at(k)) = 1
                    /\ \A qb \in at(k) :
                        WrittenRange(qb) =
                            SumSeq(SubSeq(exts, 1, k - 1))
                                ..(SumSeq(SubSeq(exts, 1, k - 1)) + exts[k] - 1)
                /\ \A a, b \in CoeffWritesAt(v) :
                    a # b => WrittenRange(a) \cap WrittenRange(b) = {}
                /\ UNION {WrittenRange(qb) : qb \in CoeffWritesAt(v)} =
                        0..(DeclaredRows(declared_temps[v]) - 1)

\* a generated kernel with a coefficient of three components, two of them of
\* the same extent and so copied by the same loop
C12_Witness ==
    /\ Generated
    /\ \E v \in VectorNodes :
        /\ expr.dag[v].shapes[1] = <<1, 2, 1>>
        /\ \E a, b \in CoeffWritesAt(v) : a # b /\ a[1] = b[1]

-----------------------------------------------------------------------------
(* C13: one declaration per coefficient temporary *)

\* positions of the statements that declare sym
DeclarationsOf(sym) == {q \in 1..Len(statements) : sym \in Declares(statements[q])}

\* C13: in a generated kernel the temporary of every coefficient vector is
\* declared by exactly one statement, however many components the coefficient
\* has, and that statement stands before every loop assigning into the temporary.
C13_CoefficientDeclaredOnce ==
    Generated =>
        \A v \in VectorNodes :
            /\ v \in DOMAIN declared_temps
            /\ Cardinality(DeclarationsOf(declared_temps[v])) = 1
            /\ \A q \in DeclarationsOf(declared_temps[v]) :
                /\ statements[q].k = "decl"
                /\ \A qb \in CoeffWritesAt(v) : q < qb[1]

\* two coefficients of several components each, declared and filled
C13_Witness ==
    /\ Generated
    /\ Cardinality(VectorNodes) = 2
    /\ \A v \in VectorNodes :
        /\ Len(expr.dag[v].shapes[1]) > 1
        /\ Cardinality(CoeffWritesAt(v)) = Len(expr.dag[v].shapes[1])
        /\ DeclarationsOf(declared_temps[v]) # {}

-----------------------------------------------------------------------------
(* C14: the result statement *)

ResultSym == Sym("T", Cardinality(DOMAIN declared_temps))

ResultDataSym == Sym("A", Cardinality(DOMAIN declared_temps))

\* positions of the statements that write through the symbol mapped on the output buffer
OutputWriters ==
    {q \in 1..Len(statements) :
        /\ statements[q].k # "map"
        /\ \/ ResultSym \in Writes(statements[q])
           \/ statements[q].k = "incr" /\ statements[q].sym = ResultSym}

\* positions of the Eigen::Map declarations over the output buffer
OutputMaps ==
    {q \in 1..Len(statements) : statements[q].k = "map" /\ statements[q].data = ResultDataSym}

RootNode == expr.dag[Root(expr.dag)]

\* C14: a generated kernel body has exactly one statement writing the output
\* buffer: its last statement, an increment of the symbol mapped on the buffer
\* by the lowered root expression; the buffer is mapped with the root's shape,
\* as a 1x1 matrix for a root of rank 0.
C14_SingleOutputIncrement ==
    Generated =>
        LET n == Len(statements)
            last == statements[n]
        IN  /\ OutputWriters = {n}
            /\ last.k = "incr"
            /\ last.sym = ResultSym
            /\ IF Root(expr.dag) \in DOMAIN declared_temps
               THEN last.code = <<SymTok(declared_temps[Root(expr.dag)])>>
               ELSE \E x \in 1..Len(last.code) :
                        last.code[x].k = "op" /\ last.code[x].i = Root(expr.dag)
            /\ Cardinality(OutputMaps) = 1
            /\ \A q \in OutputMaps :
                /\ q < n
                /\ statements[q].sym = ResultSym
                /\ statements[q].type.rows = (IF Rank(RootNode) = 0 THEN 1 ELSE Shape(RootNode)[1])
                /\ statements[q].type.cols = (IF Rank(RootNode) = 2 THEN Shape(RootNode)[2] ELSE 1)

\* a generated kernel for a root of rank 0 that is an operator
C14_Witness ==
    /\ Generated
    /\ Rank(RootNode) = 0
    /\ RootNode.type \notin TerminalTypes
    /\ statements[Len(statements)].k = "incr"
    /\ \E q \in OutputMaps : statements[q].type.rows = 1 /\ statements[q].type.cols = 1

-----------------------------------------------------------------------------
(* C15: mixed and multi-domain expressions *)

AtEntry == gpc \in {"generate_kernel", "generate_loopy_kernel"}

NothingProduced ==
    /\ bld = NoBuilder
    /\ declared_temps = <<>>
    /\ statements = <<>>
    /\ args = <<>>
    /\ kinfo = NoKernelInfo

\* C15: entered with an expression that is mixed or spans more than one mesh
\* domain, generate_kernel and generate_loopy_kernel raise in their first step,
\* with no builder constructed and no statement, temporary or argument produced.
C15_RejectedBeforeBuilder ==
    [][(AtEntry /\ (expr.is_mixed \/ expr.ndomains > 1)) => (gpc' = Raised /\ NothingProduced')]_vars

\* a two-domain expression that was refused
C15_Witness ==
    /\ gpc = Raised
    /\ ~expr.is_mixed
    /\ expr.ndomains = 2
    /\ NothingProduced

-----------------------------------------------------------------------------
(* C16: what lowering refuses *)

SupportedTypes == {"Transpose", "Inverse", "Negative", "Add", "Mul", "Block", "Solve"}

\* lowering node n meets a node without temporary whose type is not supported
RECURSIVE MeetsUnsupportedType(_, _, _)
MeetsUnsupportedType(d, temps, n) ==
    /\ n \notin DOMAIN temps
    /\ \/ d[n].type \notin SupportedTypes
       \/ \E i \in 1..Len(d[n].ops) : MeetsUnsupportedType(d, temps, d[n].ops[i])

\* ... or a Block without temporary with an index tuple that is no consecutive run
RECURSIVE MeetsUnsupported(_, _, _)
MeetsUnsupported(d, temps, n) ==
    /\ n \notin DOMAIN temps
    /\ \/ d[n].type \notin SupportedTypes
       \/ d[n].type = "Block" /\ \E i \in 1..Len(d[n].idx) : ~ConsecutiveRun(d[n].idx[i])
       \/ \E i \in 1..Len(d[n].ops) : MeetsUnsupported(d, temps, d[n].ops[i])

TypeDecided == gpc \in {"typed", "raised_type"}

LoweringDecided == gpc \in {"lowered", Raised}

\* what both statements say about eigen_matrixbase_type and about a raise
RaisesLeaveNoCode ==
    /\ TypeDecided => ((gpc = "raised_type") <=> Rank(RootNode) > 2)
    /\ gpc \in {"raised_type", Raised} => statements = <<>>
    /\ gpc = "lowered" => (statements # <<>> /\ statements[1].code # <<>>)

\* C16 as stated: slate_to_cpp raises exactly when it meets a node without
\* temporary whose type is not one of the seven supported ones.
C16_Original ==
    /\ RaisesLeaveNoCode
    /\ LoweringDecided =>
        ((gpc = Raised) <=> MeetsUnsupportedType(expr.dag, declared_temps, Root(expr.dag)))

\* C16, amended: eigen_matrixbase_type raises exactly for a shape of rank greater
\* than 2; slate_to_cpp raises exactly when it meets a node without temporary
\* whose type is not supported or a Block without temporary whose row or column
\* index tuple is not a run of consecutive increasing integers; a raise leaves
\* no code, and in every other case a code string is returned.
C16_LoweringRaises ==
    /\ RaisesLeaveNoCode
    /\ LoweringDecided =>
        ((gpc = Raised) <=> MeetsUnsupported(expr.dag, declared_temps, Root(expr.dag)))

\* an Inverse over a node of an unsupported type, refused though the terminals
\* have their temporaries
C16_Witness ==
    /\ gpc = Raised
    /\ declared_temps # <<>>
    /\ RootNode.type = "Inverse"
    /\ expr.dag[RootNode.ops[1]].type = "TensorOp"
    /\ statements = <<>>

-----------------------------------------------------------------------------
(* C17: symbolic names *)

TempNodes == DOMAIN declared_temps

\* position of the statement that declares the temporary of node v
DeclPos(v) == MinOf(DeclarationsOf(declared_temps[v]))

\* the temporaries created before that of node v
CreatedBefore(v) == {u \in TempNodes : DeclPos(u) < DeclPos(v)}

\* C17: in a generated kernel the names of all temporaries are pairwise
\* distinct; a terminal tensor is named T<i>, a coefficient VT<k>, a
\* factorization dec<n> and any other auxiliary temporary auxT<n>, n the number
\* of temporaries created before it; the result symbols are T<n> and A<n> with
\* n the number of all temporaries, and equal no temporary's name.
C17_NamesDistinct ==
    Generated =>
        LET n == Cardinality(TempNodes)
            last == statements[Len(statements)]
        IN  /\ \A u, v \in TempNodes : u # v => declared_temps[u] # declared_temps[v]
            /\ \A v \in TempNodes :
                LET t == declared_temps[v]
                    ty == expr.dag[v].type
                IN  /\ DeclarationsOf(t) # {}
                    /\ t.p = (CASE ty = "Tensor" -> "T"
                                [] ty = "AssembledVector" -> "VT"
                                [] ty = "Factorization" -> "dec"
                                [] OTHER -> "auxT")
                    /\ t.p \in {"auxT", "dec"} => t.i = Cardinality(CreatedBefore(v))
                    /\ t # last.sym
                    /\ \A q \in OutputMaps : t # statements[q].data
            /\ last.sym = [p |-> "T", i |-> n, j |-> -1]
            /\ \A q \in OutputMaps : statements[q].data = [p |-> "A", i |-> n, j |-> -1]

\* a kernel with a terminal temporary T0, an auxiliary temporary auxT1 and the
\* result symbol T2
C17_Witness ==
    /\ Generated
    /\ \E u, w \in TempNodes :
        /\ declared_temps[u] = [p |-> "T", i |-> 0, j |-> -1]
        /\ declared_temps[w] = [p |-> "auxT", i |-> 1, j |-> -1]
    /\ statements[Len(statements)].sym = [p |-> "T", i |-> 2, j |-> -1]

-----------------------------------------------------------------------------
(* C18: the flags of KernelInfo *)

\* number of arguments of the kernel with this role
ArgCount(role) == Cardinality({x \in 1..Len(args) : args[x].role = role})

HasFacetLoop ==
    \E q \in 1..Len(statements) : statements[q].k = "for" /\ statements[q].var = "i0"

HasLayerConditional ==
    \E q \in 1..Len(statements) : statements[q].k = "if" /\ statements[q].what = MeshLayerSym

Flag(b) == IF b THEN 1 ELSE 0

\* C18: the four flags of the KernelInfo of a finished compilation, on either
\* path, equal the builder's needs one by one; the argument list of the kernel
\* made by generate_kernel_ast holds the orientation, facet-marker, layer and
\* cell-size argument exactly when the flag of that name is set, and its
\* body holds the facet loop exactly when needs_cell_facets and the layer
\* conditional exactly when needs_mesh_layers.
C18_FlagsFollowNeeds ==
    /\ (Generated \/ gpc = "done_loopy") =>
        /\ kinfo.oriented = (IF Generated THEN bld.oriented ELSE bld.needs_cell_orientations)
        /\ kinfo.needs_cell_facets = bld.needs_cell_facets
        /\ kinfo.pass_layer_arg = bld.needs_mesh_layers
        /\ kinfo.needs_cell_sizes = bld.needs_cell_sizes
        /\ kinfo.integral_type = "cell"
    /\ Generated =>
        /\ ArgCount("orientations") = Flag(kinfo.oriented)
        /\ ArgCount("cell_facets") = Flag(kinfo.needs_cell_facets)
        /\ ArgCount("layer") = Flag(kinfo.pass_layer_arg)
        /\ ArgCount("cell_sizes") = Flag(kinfo.needs_cell_sizes)
        /\ HasFacetLoop <=> bld.needs_cell_facets
        /\ HasLayerConditional <=> bld.needs_mesh_layers

\* a kernel that needs orientations and the layer, but neither facets nor sizes
C18_Witness ==
    /\ Generated
    /\ kinfo.oriented
    /\ ~kinfo.needs_cell_facets
    /\ kinfo.pass_layer_arg
    /\ ~kinfo.needs_cell_sizes
    /\ HasLayerConditional
    /\ ~HasFacetLoop
    /\ ArgCount("layer") = 1

-----------------------------------------------------------------------------
(* C19: LAPACK status in inverse_ and solve_ *)

InRoutine == gpc \in {"getrf", "if_info_zero", "gesv", "if_info_nonzero", "return"}

\* C19: whatever status the LAPACK routines leave, inverse_ and solve_ come back
\* to the kernel that called them; on return a message has been written to
\* stderr exactly when the last status is not 0; and inverse_ has called getri
\* only when getrf left status 0.
C19_StatusNeverAborts ==
    /\ (InRoutine ~> gpc = "kernel")
    /\ [](gpc = "return" => (run.printed <=> run.info # 0))
    /\ [](run.getri => run.getrf_info = <<0>>)
    /\ [][gpc = "return" => (gpc' = "kernel" /\ run'.stderr = run.stderr)]_vars
    /\ [][(InRoutine /\ gpc # "if_info_nonzero") => run'.stderr = run.stderr]_vars

\* inverse_ back in the kernel after getrf succeeded and getri failed, the
\* message on stderr
C19_Witness ==
    /\ gpc = "kernel"
    /\ run.calls = 1
    /\ run.routine = "inverse_"
    /\ run.getrf_info = <<0>>
    /\ run.getri
    /\ run.info # 0
    /\ run.stderr = <<"Getri throws nonzero info.">>

-----------------------------------------------------------------------------
(* C20: cache entries stay *)

\* every entry of every expression's cache is there, unchanged, after the step
EntriesKept ==
    \A ei \in 1..Len(CacheExprs) : \A key \in DOMAIN cache[ei] :
        key \in DOMAIN cache'[ei] /\ cache'[ei][key] = cache[ei][key]

\* C20: no step of any call, alone or interleaved with other calls, ending in a
\* return or in a raise, removes or replaces an entry of a kernel cache; a call
\* that has returned holds the kernel the cache maps its key to, and all
\* kernels returned for an expression and a parameter set are one and the same.
C20_EntriesPersist ==
    /\ [][EntriesKept]_vars
    /\ [](\A w \in Workers :
            call[w].pc = "returned" =>
                /\ call[w].key \in DOMAIN cache[call[w].e]
                /\ call[w].ret = cache[call[w].e][call[w].key])
    /\ [](\A r, q \in rets : (r.e = q.e /\ r.params = q.params) => r.kernel = q.kernel)

\* two interleaved calls for one key have both generated a kernel, and both have
\* returned the one that entered the cache first
C20_Witness ==
    \E w, v \in Workers :
        /\ w # v
        /\ call[w].pc = "returned" /\ call[v].pc = "returned"
        /\ call[w].e = call[v].e /\ call[w].key = call[v].key
        /\ call[w].kernel # NoKernel /\ call[v].kernel # NoKernel
        /\ call[w].kernel # call[v].kernel
        /\ call[w].ret = call[v].ret
        /\ call[w].ret = cache[call[w].e][call[w].key]

-----------------------------------------------------------------------------
(* C21: auxiliary temporaries in dependency order *)

\* the nodes below n
RECURSIVE SubDag(_, _)
SubDag(d, n) ==
    UNION {{d[n].ops[i]} \cup SubDag(d, d[n].ops[i]) : i \in 1..Len(d[n].ops)}

\* a terminal, a Factorization, or a shared node that is no Transpose or Negative
RequiresTemp(n) ==
    \/ expr.dag[n].type \in TerminalTypes \cup {"Factorization"}
    \/ bld.ref_counter[n] > 1 /\ expr.dag[n].type \notin {"Transpose", "Negative"}

\* lowering n with the temporaries of the nodes in have meets a Factorization
\* that is not among them
RECURSIVE MeetsFactorization(_, _, _)
MeetsFactorization(d, have, n) ==
    /\ n \notin have
    /\ \/ d[n].type = "Factorization"
       \/ \E i \in 1..Len(d[n].ops) : MeetsFactorization(d, have, d[n].ops[i])

\* the node that slate_to_cpp is called on for the statement of node n
LoweredFor(n) == IF expr.dag[n].type = "Factorization" THEN expr.dag[n].ops[1] ELSE n

\* the nodes given a temporary by auxiliary_expressions, and their statements
AuxNodes == {n \in TempNodes : declared_temps[n].p \in {"auxT", "dec"}}

AuxStatement(n) ==
    CHOOSE q \in 1..Len(statements) :
        statements[q].k \in {"assign", "factor"} /\ statements[q].sym = declared_temps[n]

\* C21: on entry to auxiliary_expressions, for every node in the order it will be
\* handled, lowering it with the temporaries present then never meets a
\* Factorization without temporary; and in the statements produced, the
\* statement of a node comes after the declaration of every node below it that
\* requires a temporary, and its right-hand side names only temporaries declared
\* by earlier statements.
C21_AuxiliaryInDependencyOrder ==
    /\ gpc = "auxiliary_expressions" =>
        LET exps == SortedExprs(bld, expr.dag)
        IN  \A i \in 1..Len(exps) :
                ~MeetsFactorization(expr.dag,
                                    DOMAIN declared_temps \cup {exps[j] : j \in 1..(i - 1)},
                                    LoweredFor(exps[i]))
    /\ AfterAuxiliary =>
        /\ ~MeetsFactorization(expr.dag, DOMAIN declared_temps, Root(expr.dag))
        /\ \A n \in AuxNodes :
            /\ \A m \in SubDag(expr.dag, n) :
                    RequiresTemp(m) => (m \in TempNodes /\ DeclPos(m) < AuxStatement(n))
            /\ \A sym \in CodeSyms(statements[AuxStatement(n)].code) :
                    \E m \in TempNodes :
                        declared_temps[m] = sym /\ DeclPos(m) < AuxStatement(n)

\* a temporary whose right-hand side names a temporary that auxiliary_expressions
\* made before it
C21_Witness ==
    /\ Generated
    /\ \E n, m \in AuxNodes :
        /\ n # m
        /\ declared_temps[m] \in CodeSyms(statements[AuxStatement(n)].code)

-----------------------------------------------------------------------------
(* C22: one branch of the layer conditional *)

\* the emitted statements that test the layer argument
LayerStatements == SelectSeq(statements, LAMBDA st : st.k = "if" /\ st.what = MeshLayerSym)

\* the calls those statements run when the layer argument is l
RunsOnLayer(l) ==
    LET tr == ExecStmts(LayerStatements, [layer |-> l, cell_facets |-> <<>>], -1)
    IN  [x \in 1..Len(tr) |-> tr[x].call]

\* the calls of the three branches
BottomBranch == HorizCalls("interior_facet_horiz_top") \o HorizCalls("exterior_facet_bottom")

TopBranch == HorizCalls("interior_facet_horiz_bottom") \o HorizCalls("exterior_facet_top")

RestBranch == HorizCalls("interior_facet_horiz_bottom") \o HorizCalls("interior_facet_horiz_top")

-----------------------------------------------------------------------------
(* C23: what the cache key is made of *)

\* the sorted parameter items for which a kernel of expression ei was returned
ReturnedParams(ei) == {r.params : r \in {q \in rets : q.e = ei}}

\* C23: with calls one after another, every cache entry sits under the string
\* of its kernel's sorted parameter items and nothing else; a call made after a
\* kernel was returned for the same expression and parameters with the other
\* value of coffee returns that kernel as it is and generates nothing; and
\* parameter sets with different sorted items have entries of their own.
C23_KeyIsSortedItemsOnly ==
    /\ \A ei \in 1..Len(CacheExprs) :
        /\ \A key \in DOMAIN cache[ei] :
            key = Str(cache[ei][key].params) /\ cache[ei][key].e = ei
        /\ \A p \in ReturnedParams(ei) :
            Str(p) \in DOMAIN cache[ei] /\ cache[ei][Str(p)].params = p
        /\ Cardinality(DOMAIN cache[ei]) >= Cardinality(ReturnedParams(ei))
    /\ \A w \in Workers :
        (call[w].prior # NoKernel /\ call[w].prior.coffee # call[w].coffee) =>
            /\ call[w].pc = "returned"
            /\ call[w].ret = call[w].prior
            /\ call[w].ret.coffee # call[w].coffee
            /\ call[w].ngen = 0
            /\ call[w].kernel = NoKernel

\* a call with coffee set has returned the kernel that a call without it generated
C23_Witness ==
    \E w \in Workers :
        /\ call[w].pc = "returned"
        /\ call[w].coffee
        /\ call[w].prior # NoKernel
        /\ ~call[w].ret.coffee
        /\ call[w].ngen = 0

=============================================================================
